---- MODULE Spec2Model ----
(***************************************************************************)
(* Pathfinding-Visualizer: the five grid searches (bfs, dfs, dijkstra,    *)
(* astar, greedyBestFirst), the path reconstruction and the maze          *)
(* generators, as state machines over a rows x cols grid of nodes.        *)
(***************************************************************************)
EXTENDS Integers, Sequences, FiniteSets, TLC

VARIABLES
    rows,                   \* grid.length
    cols,                   \* grid[0].length
    start,                  \* startPos / startNode, as <<row, col>>
    finish,                 \* finishPos / finishNode, as <<row, col>>
    alg,                    \* algorithmKey of the run ("none" outside a search)
    grid,                   \* gridForAlgo: cell -> node record
    frontier,               \* queue (bfs), stack (dfs), unvisitedNodes (dijkstra), openSet (astar, greedy)
    visitedNodesInOrder,    \* the list the search returns
    pc,                     \* position of the run
    nodesInShortestPathOrder, \* computeRun: result of getNodesInShortestPathOrder
    hasPath,                \* computeRun: hasPath
    gen,                    \* the maze generator running ("none" outside a generation)
    addBorder,              \* the generator's addBorder argument
    walls,                  \* the generator's `walls` Set of "row-col" keys
    calls,                  \* recursive division: the divide calls still to run, next first
    stack,                  \* recursive backtracker: the carving stack
    visitedCells,           \* recursive backtracker: the visitedCells Set
    mpc,                    \* position of the generation
    uiGrid,                 \* the component's `grid` state: cell -> node record
    mouseIsPressed,         \* the component's mouseIsPressed state
    dragMode,               \* the component's dragMode state
    wallPaintValue,         \* wallPaintValueRef.current
    isAnimating,            \* the component's isAnimating state
    algoKeys,               \* benchmarkAll: the keys still to run
    handler,                \* the handler whose call of a generator or a search is running
    uiOps,                  \* the number of user operations so far
    status,                 \* the component's status state
    hasVisualization,       \* the component's hasVisualization state
    timeouts                \* the timers of timeoutsRef.current still to fire, next first

searchVars == <<alg, grid, frontier, visitedNodesInOrder, pc, nodesInShortestPathOrder, hasPath>>
mazeVars == <<gen, addBorder, walls, calls, stack, visitedCells, mpc>>
animVars == <<status, hasVisualization, timeouts>>
uiVars == <<uiGrid, mouseIsPressed, dragMode, wallPaintValue, isAnimating, algoKeys, handler, uiOps,
            animVars>>
vars == <<rows, cols, start, finish, searchVars, mazeVars, uiVars>>

\* ---------------------------------------------------------------- bounds

\* Search grids have at most MaxCells cells (rows * cols <= MaxCells).
MaxCells == 8
\* Search grids hold at most MaxWalls wall cells.
MaxWalls == 2
\* Mazes are generated for grids of 1 .. MaxMazeRows rows and 1 .. MaxMazeCols columns.
MaxMazeRows == 5
MaxMazeCols == 5
\* The large recursive division maze: a LargeMazeSize x LargeMazeSize grid.
LargeMazeSize == 9
\* The recursive backtracker maze of even size: an EvenMazeSize x EvenMazeSize grid.
EvenMazeSize == 6
\* The scenario grid: ScenarioSize x ScenarioSize cells, no wall.
ScenarioSize == 5
\* The largest side of the grids recursive division is run on for its wall lattice.
LatticeMazeSize == 10
\* A behaviour of the board holds at most MaxUiOps user operations.
MaxUiOps == 3

\* ------------------------------------------------------------ basic values

\* JavaScript's Infinity: larger than every finite distance, and Infinity + 1 = Infinity.
Infinity == 1000000

\* JavaScript's null (previousNode of a node nobody discovered).
Null == <<>>

Algorithms == {"bfs", "dfs", "dijkstra", "astar", "greedy"}

Cells(rs, cs) == (0 .. rs - 1) \X (0 .. cs - 1)

Abs(x) == IF x < 0 THEN -x ELSE x

\* node.distance + 1 in JavaScript arithmetic.
Add1(d) == IF d = Infinity THEN Infinity ELSE d + 1

manhattan(a, b) == Abs(a[1] - b[1]) + Abs(a[2] - b[2])

\* One cell of cloneGridForAlgorithm's result.
CloneNode(isWall) ==
    [isWall |-> isWall, distance |-> Infinity, fScore |-> Infinity,
     isVisited |-> FALSE, previousNode |-> Null]

cloneGridForAlgorithm(rs, cs, ws) ==
    [c \in Cells(rs, cs) |-> CloneNode(c \in ws)]

\* ------------------------------------------------------------- neighbours

Up(c) == <<c[1] - 1, c[2]>>
Down(c) == <<c[1] + 1, c[2]>>
Left(c) == <<c[1], c[2] - 1>>
Right(c) == <<c[1], c[2] + 1>>

\* bfs.js 41-51, dijkstra.js 65-75, astar.js 51-61, greedyBestFirst.js 48-58:
\* the in-bounds neighbours in the order Up, Down, Left, Right.
getNeighbors(node, rs, cs) ==
    (IF node[1] > 0 THEN <<Up(node)>> ELSE <<>>)
    \o (IF node[1] < rs - 1 THEN <<Down(node)>> ELSE <<>>)
    \o (IF node[2] > 0 THEN <<Left(node)>> ELSE <<>>)
    \o (IF node[2] < cs - 1 THEN <<Right(node)>> ELSE <<>>)

\* dfs.js 40-48, mutated: the neighbours in the order of bfs.js, Up, Down, Left, Right.
getNeighborsDfsUpDownLeftRight(node, rs, cs) ==
    (IF node[1] > 0 THEN <<Up(node)>> ELSE <<>>)
    \o (IF node[1] < rs - 1 THEN <<Down(node)>> ELSE <<>>)
    \o (IF node[2] > 0 THEN <<Left(node)>> ELSE <<>>)
    \o (IF node[2] < cs - 1 THEN <<Right(node)>> ELSE <<>>)

\* dfs.js 40-48: the in-bounds neighbours in the order Up, Right, Down, Left.
getNeighborsDfs(node, rs, cs) ==
    (IF node[1] > 0 THEN <<Up(node)>> ELSE <<>>)
    \o (IF node[2] < cs - 1 THEN <<Right(node)>> ELSE <<>>)
    \o (IF node[1] < rs - 1 THEN <<Down(node)>> ELSE <<>>)
    \o (IF node[2] > 0 THEN <<Left(node)>> ELSE <<>>)

\* neighbors.filter((n) => !n.isVisited), mutated: the filter forgotten.
FilterUnvisitedNone(nbrs, g) == nbrs

\* neighbors.filter((n) => !n.isVisited)
FilterUnvisited(nbrs, g) ==
    LET Unvisited(n) == ~g[n].isVisited IN SelectSeq(nbrs, Unvisited)

Reverse(s) == [i \in 1 .. Len(s) |-> s[Len(s) + 1 - i]]

Contains(s, x) == \E i \in 1 .. Len(s) : s[i] = x

\* ------------------------------------------------------------------ sort

\* Array.prototype.sort is stable: x goes after every element whose key is <= its own.
RECURSIVE InsertByKey(_, _, _)
InsertByKey(sorted, x, key) ==
    IF sorted = <<>> THEN <<x>>
    ELSE IF key[sorted[Len(sorted)]] <= key[x] THEN Append(sorted, x)
    ELSE Append(InsertByKey(SubSeq(sorted, 1, Len(sorted) - 1), x, key), sorted[Len(sorted)])

RECURSIVE StableSort(_, _)
StableSort(s, key) ==
    IF s = <<>> THEN <<>>
    ELSE InsertByKey(StableSort(SubSeq(s, 1, Len(s) - 1), key), s[Len(s)], key)

\* The run of a search as a value: what the function holds between two loop tests.
RunState(g, f, v, p) == [grid |-> g, frontier |-> f, visited |-> v, pc |-> p]

\* `while (xs.length)`: the loop test after an iteration that did not return.
LoopOrDone(f) == IF f = <<>> THEN "done" ELSE "loop"

\* `for (const x of xs) body`: the loop body applied to each element in order.
RECURSIVE ForEach(_, _, _)
ForEach(Body(_, _), acc, xs) ==
    IF xs = <<>> THEN acc ELSE ForEach(Body, Body(acc, Head(xs)), Tail(xs))

\* ------------------------------------------------------------------- bfs

\* bfs.js 17-19, mutated: the start node not marked visited.
bfsBeginUnmarked(g, s) ==
    RunState([g EXCEPT ![s].distance = 0], <<s>>, <<>>, "loop")

\* bfs.js 17-19
bfsBegin(g, s) ==
    RunState([g EXCEPT ![s].isVisited = TRUE, ![s].distance = 0], <<s>>, <<>>, "loop")

\* queue.shift(), mutated: the queue popped at its end.
bfsDequeueLast(q) == [node |-> q[Len(q)], rest |-> SubSeq(q, 1, Len(q) - 1)]

\* bfs.js 22: queue.shift()
bfsDequeue(q) == [node |-> Head(q), rest |-> Tail(q)]

\* bfs.js 30-34, mutated: the wall test on the neighbour forgotten.
bfsDiscoverWalls(acc, node, n) ==
    [grid |-> [acc.grid EXCEPT ![n].isVisited = TRUE,
                               ![n].distance = Add1(acc.grid[node].distance),
                               ![n].previousNode = node],
     frontier |-> Append(acc.frontier, n)]

\* bfs.js 30-34: the body of the loop over the unvisited neighbours.
bfsDiscover(acc, node, n) ==
    IF acc.grid[n].isWall THEN acc
    ELSE [grid |-> [acc.grid EXCEPT ![n].isVisited = TRUE,
                                    ![n].distance = Add1(acc.grid[node].distance),
                                    ![n].previousNode = node],
          frontier |-> Append(acc.frontier, n)]

\* bfs.js 21-36: one iteration of the while loop, with the loop test that follows it.
bfsIteration(S, rs, cs, fin) ==
    LET d == bfsDequeue(S.frontier)
        node == d.node
        Body(acc, n) == bfsDiscover(acc, node, n)
    IN  IF S.grid[node].isWall
        THEN RunState(S.grid, d.rest, S.visited, LoopOrDone(d.rest))
        ELSE IF node = fin
        THEN RunState(S.grid, d.rest, Append(S.visited, node), "done")
        ELSE LET r == ForEach(Body, [grid |-> S.grid, frontier |-> d.rest],
                              FilterUnvisited(getNeighbors(node, rs, cs), S.grid))
             IN  RunState(r.grid, r.frontier, Append(S.visited, node), LoopOrDone(r.frontier))

\* ------------------------------------------------------------------- dfs

\* dfs.js 12-15, mutated: the start node not marked visited.
dfsBeginUnmarked(g, s) ==
    RunState([g EXCEPT ![s].distance = 0], <<s>>, <<>>, "loop")

\* dfs.js 12-15
dfsBegin(g, s) ==
    RunState([g EXCEPT ![s].isVisited = TRUE, ![s].distance = 0], <<s>>, <<>>, "loop")

\* dfs.js 18: stack.pop()
dfsPop(st) == [node |-> st[Len(st)], rest |-> SubSeq(st, 1, Len(st) - 1)]

\* dfs.js 28-33, mutated: neighbor.previousNode = node forgotten.
dfsDiscoverNoLink(acc, node, n) ==
    IF acc.grid[n].isWall THEN acc
    ELSE [grid |-> [acc.grid EXCEPT ![n].isVisited = TRUE,
                                    ![n].distance = Add1(acc.grid[node].distance)],
          frontier |-> Append(acc.frontier, n)]

\* dfs.js 28-33: the body of the loop over the unvisited neighbours.
dfsDiscover(acc, node, n) ==
    IF acc.grid[n].isWall THEN acc
    ELSE [grid |-> [acc.grid EXCEPT ![n].isVisited = TRUE,
                                    ![n].distance = Add1(acc.grid[node].distance),
                                    ![n].previousNode = node],
          frontier |-> Append(acc.frontier, n)]

\* dfs.js 17-35: one iteration of the while loop; the neighbours are walked from the
\* last to the first.
dfsIteration(S, rs, cs, fin) ==
    LET d == dfsPop(S.frontier)
        node == d.node
        Body(acc, n) == dfsDiscover(acc, node, n)
    IN  IF S.grid[node].isWall
        THEN RunState(S.grid, d.rest, S.visited, LoopOrDone(d.rest))
        ELSE IF node = fin
        THEN RunState(S.grid, d.rest, Append(S.visited, node), "done")
        ELSE LET r == ForEach(Body, [grid |-> S.grid, frontier |-> d.rest],
                              Reverse(FilterUnvisited(getNeighborsDfs(node, rs, cs), S.grid)))
             IN  RunState(r.grid, r.frontier, Append(S.visited, node), LoopOrDone(r.frontier))

\* -------------------------------------------------------------- dijkstra

\* dijkstra.js 77-85: every node, row by row.
getAllNodes(rs, cs) == [i \in 1 .. rs * cs |-> <<(i - 1) \div cs, (i - 1) % cs>>]

\* dijkstra.js 16-17, mutated: startNode.distance = 0 forgotten.
dijkstraBeginUnset(g, s, rs, cs) ==
    RunState(g, getAllNodes(rs, cs), <<>>, "loop")

\* dijkstra.js 16-17
dijkstraBegin(g, s, rs, cs) ==
    RunState([g EXCEPT ![s].distance = 0], getAllNodes(rs, cs), <<>>, "loop")

\* dijkstra.js 20, mutated: the comparator the wrong way round (b.distance - a.distance).
sortByDistanceDescending(nodes, g) == StableSort(nodes, [c \in DOMAIN g |-> 0 - g[c].distance])

\* dijkstra.js 20: sort((a, b) => a.distance - b.distance)
sortByDistance(nodes, g) == StableSort(nodes, [c \in DOMAIN g |-> g[c].distance])

\* dijkstra.js 56-61: the body of updateUnvisitedNeighbors' loop.
relaxNeighbor(g, node, n) ==
    LET candidateDistance == Add1(g[node].distance)
    IN  IF candidateDistance < g[n].distance
        THEN [g EXCEPT ![n].distance = candidateDistance, ![n].previousNode = node]
        ELSE g

\* dijkstra.js 53-63
updateUnvisitedNeighbors(node, g, rs, cs) ==
    LET Body(acc, n) == relaxNeighbor(acc, node, n)
    IN  ForEach(Body, g, FilterUnvisited(getNeighbors(node, rs, cs), g))

\* dijkstra.js 27, mutated: the trapped test forgotten.
isTrappedNever(g, node) == FALSE

\* dijkstra.js 27: if (closestNode.distance === Infinity) return visitedNodesInOrder
isTrapped(g, node) == g[node].distance = Infinity

\* dijkstra.js 19-34: one iteration of the while loop.
dijkstraIteration(S, rs, cs, fin) ==
    LET sorted == sortByDistance(S.frontier, S.grid)
        closestNode == Head(sorted)
        rest == Tail(sorted)
        g1 == [S.grid EXCEPT ![closestNode].isVisited = TRUE]
    IN  IF S.grid[closestNode].isWall
        THEN RunState(S.grid, rest, S.visited, LoopOrDone(rest))
        ELSE IF isTrapped(S.grid, closestNode)
        THEN RunState(S.grid, rest, S.visited, "done")
        ELSE IF closestNode = fin
        THEN RunState(g1, rest, Append(S.visited, closestNode), "done")
        ELSE RunState(updateUnvisitedNeighbors(closestNode, g1, rs, cs), rest,
                      Append(S.visited, closestNode), LoopOrDone(rest))

\* ----------------------------------------------------------------- astar

\* astar.js 16-19
astarBegin(g, s, fin) ==
    RunState([g EXCEPT ![s].distance = 0, ![s].fScore = manhattan(s, fin)], <<s>>, <<>>, "loop")

\* astar.js 22, mutated: the comparator the wrong way round.
sortByFScoreDescending(nodes, g) == StableSort(nodes, [c \in DOMAIN g |-> 0 - g[c].fScore])

\* astar.js 22, mutated: ties broken by something other than the input, here the
\* number of cells the component has seen visited.
sortByFScoreUnstable(nodes, g) ==
    IF Len(visitedNodesInOrder) % 2 = 0
    THEN StableSort(nodes, [c \in DOMAIN g |-> g[c].fScore])
    ELSE StableSort(Reverse(nodes), [c \in DOMAIN g |-> g[c].fScore])

\* astar.js 22, greedyBestFirst.js 23: sort by (fScore ?? Infinity)
sortByFScore(nodes, g) == StableSort(nodes, [c \in DOMAIN g |-> g[c].fScore])

\* astar.js 41, mutated: the heuristic counted twice.
astarPriorityWeighted(tentativeG, n, fin) == tentativeG + 2 * manhattan(n, fin)

\* astar.js 41: fScore = tentativeG + manhattan(neighbor, finishNode)
astarPriority(tentativeG, n, fin) == tentativeG + manhattan(n, fin)

\* astar.js 35-44: the body of the loop over the neighbours.
astarRelax(acc, current, n, fin) ==
    LET tentativeG == Add1(acc.grid[current].distance)
    IN  IF acc.grid[n].isWall \/ acc.grid[n].isVisited THEN acc
        ELSE IF tentativeG < acc.grid[n].distance
        THEN [grid |-> [acc.grid EXCEPT ![n].distance = tentativeG,
                                        ![n].previousNode = current,
                                        ![n].fScore = astarPriority(tentativeG, n, fin)],
              frontier |-> IF Contains(acc.frontier, n) THEN acc.frontier
                           ELSE Append(acc.frontier, n)]
        ELSE acc

\* astar.js 21-46: one iteration of the while loop.
astarIteration(S, rs, cs, fin) ==
    LET sorted == sortByFScore(S.frontier, S.grid)
        current == Head(sorted)
        rest == Tail(sorted)
        g1 == [S.grid EXCEPT ![current].isVisited = TRUE]
        Body(acc, n) == astarRelax(acc, current, n, fin)
    IN  IF S.grid[current].isWall \/ S.grid[current].isVisited
        THEN RunState(S.grid, rest, S.visited, LoopOrDone(rest))
        ELSE IF current = fin
        THEN RunState(g1, rest, Append(S.visited, current), "done")
        ELSE LET r == ForEach(Body, [grid |-> g1, frontier |-> rest], getNeighbors(current, rs, cs))
             IN  RunState(r.grid, r.frontier, Append(S.visited, current), LoopOrDone(r.frontier))

\* ---------------------------------------------------------------- greedy

\* greedyBestFirst.js 17-20
greedyBegin(g, s, fin) ==
    RunState([g EXCEPT ![s].distance = 0, ![s].fScore = manhattan(s, fin)], <<s>>, <<>>, "loop")

\* greedyBestFirst.js 38, mutated: the test `!neighbor.previousNode` forgotten.
greedyPreviousLatest(old, current) == current

\* greedyBestFirst.js 38: if (!neighbor.previousNode) neighbor.previousNode = current
greedyPrevious(old, current) == IF old = Null THEN current ELSE old

\* greedyBestFirst.js 35-41, mutated: the test `!openSet.includes(neighbor)` forgotten.
greedyDiscoverPushAlways(acc, current, n, fin) ==
    IF acc.grid[n].isWall \/ acc.grid[n].isVisited THEN acc
    ELSE [grid |-> [acc.grid EXCEPT ![n].previousNode = greedyPrevious(@, current),
                                    ![n].fScore = manhattan(n, fin)],
          frontier |-> Append(acc.frontier, n)]

\* greedyBestFirst.js 35-41: the body of the loop over the neighbours.
greedyDiscover(acc, current, n, fin) ==
    IF acc.grid[n].isWall \/ acc.grid[n].isVisited THEN acc
    ELSE [grid |-> [acc.grid EXCEPT ![n].previousNode = greedyPrevious(@, current),
                                    ![n].fScore = manhattan(n, fin)],
          frontier |-> IF Contains(acc.frontier, n) THEN acc.frontier
                       ELSE Append(acc.frontier, n)]

\* greedyBestFirst.js 22-43: one iteration of the while loop.
greedyIteration(S, rs, cs, fin) ==
    LET sorted == sortByFScore(S.frontier, S.grid)
        current == Head(sorted)
        rest == Tail(sorted)
        g1 == [S.grid EXCEPT ![current].isVisited = TRUE]
        Body(acc, n) == greedyDiscover(acc, current, n, fin)
    IN  IF S.grid[current].isWall \/ S.grid[current].isVisited
        THEN RunState(S.grid, rest, S.visited, LoopOrDone(rest))
        ELSE IF current = fin
        THEN RunState(g1, rest, Append(S.visited, current), "done")
        ELSE LET r == ForEach(Body, [grid |-> g1, frontier |-> rest], getNeighbors(current, rs, cs))
             IN  RunState(r.grid, r.frontier, Append(S.visited, current), LoopOrDone(r.frontier))

\* ------------------------------------------------------- path reconstructor

\* dijkstra.js 46-49: whether the while loop over previousNode ends (fuel: the number
\* of nodes; a chain that is longer than that runs in a cycle and never ends).
RECURSIVE ChainEnds(_, _, _)
ChainEnds(g, node, fuel) ==
    IF node = Null THEN TRUE
    ELSE IF fuel = 0 THEN FALSE
    ELSE ChainEnds(g, g[node].previousNode, fuel - 1)

RECURSIVE PathBack(_, _, _)
PathBack(g, node, fuel) ==
    IF node = Null \/ fuel = 0 THEN <<>>
    ELSE Append(PathBack(g, g[node].previousNode, fuel - 1), node)

\* dijkstra.js 43-51
getNodesInShortestPathOrder(g, finishNode) == PathBack(g, finishNode, Cardinality(DOMAIN g))

\* PathfindingVisualizer.jsx 873-879
computeHasPath(path, s, fin) ==
    /\ Len(path) > 0
    /\ path[1] = s
    /\ path[Len(path)] = fin

\* ------------------------------------------------------- the searches, by key

\* PathfindingVisualizer.jsx 855-864: the function computeRun calls for a key.
searchBegin(a, g, s, fin, rs, cs) ==
    CASE a = "bfs" -> bfsBegin(g, s)
      [] a = "dfs" -> dfsBegin(g, s)
      [] a = "dijkstra" -> dijkstraBegin(g, s, rs, cs)
      [] a = "greedy" -> greedyBegin(g, s, fin)
      [] OTHER -> astarBegin(g, s, fin)

searchIteration(a, S, rs, cs, fin) ==
    CASE a = "bfs" -> bfsIteration(S, rs, cs, fin)
      [] a = "dfs" -> dfsIteration(S, rs, cs, fin)
      [] a = "dijkstra" -> dijkstraIteration(S, rs, cs, fin)
      [] a = "greedy" -> greedyIteration(S, rs, cs, fin)
      [] OTHER -> astarIteration(S, rs, cs, fin)

\* A whole call of a search on its own grid: the iterations up to the return.
RECURSIVE runToReturn(_, _, _, _, _)
runToReturn(a, S, rs, cs, fin) ==
    IF S.pc = "done" THEN S ELSE runToReturn(a, searchIteration(a, S, rs, cs, fin), rs, cs, fin)

runSearch(a, g, s, fin, rs, cs) == runToReturn(a, searchBegin(a, g, s, fin, rs, cs), rs, cs, fin)

\* ------------------------------------------------------------------ maze

\* maze.js 1-3: `${row}-${col}`
key(row, col) == ToString(row) \o "-" \o ToString(col)

keyOf(c) == key(c[1], c[2])

\* maze.js 5-11, mutated: any integer of [min, max], the parity not looked at.
randomEvenAnyParity(min, max) == min .. max

\* maze.js 5-11: the values randomEven(min, max) can return ({}: null). min is never
\* negative here, so JavaScript's % agrees with TLA+'s.
randomEven(min, max) ==
    LET st == IF min % 2 = 0 THEN min ELSE min + 1
    IN  IF st > max THEN {} ELSE {st + 2 * k : k \in 0 .. ((max - st) \div 2)}

\* maze.js 13-19: the values randomOdd(min, max) can return ({}: null).
randomOdd(min, max) ==
    LET st == IF min % 2 = 1 THEN min ELSE min + 1
    IN  IF st > max THEN {} ELSE {st + 2 * k : k \in 0 .. ((max - st) \div 2)}

\* `x ?? fallback` over the set of values x can take.
OrElse(choices, fallback) == IF choices = {} THEN {fallback} ELSE choices

\* maze.js 21-25: the orientations chooseOrientation(width, height) can return.
chooseOrientation(width, height) ==
    IF width < height THEN {"horizontal"}
    ELSE IF height < width THEN {"vertical"}
    ELSE {"horizontal", "vertical"}

\* maze.js 31-34: del(r, c)
del(w, rs, cs, r, c) ==
    IF r < 0 \/ r >= rs \/ c < 0 \/ c >= cs THEN w ELSE w \ {key(r, c)}

\* maze.js 27-49
ensureEndpointOpenings(w, rs, cs, pos) ==
    LET row == pos[1]
        col == pos[2]
        w0 == del(w, rs, cs, row, col)
        w1 == IF row = 0 THEN del(w0, rs, cs, 1, col) ELSE w0
        w2 == IF row = rs - 1 THEN del(w1, rs, cs, rs - 2, col) ELSE w1
        w3 == IF col = 0 THEN del(w2, rs, cs, row, 1) ELSE w2
        w4 == IF col = cs - 1 THEN del(w3, rs, cs, row, cs - 2) ELSE w3
        w5 == IF row = 0 /\ col = 0 THEN del(w4, rs, cs, 1, 1) ELSE w4
        w6 == IF row = 0 /\ col = cs - 1 THEN del(w5, rs, cs, 1, cs - 2) ELSE w5
        w7 == IF row = rs - 1 /\ col = 0 THEN del(w6, rs, cs, rs - 2, 1) ELSE w6
        w8 == IF row = rs - 1 /\ col = cs - 1 THEN del(w7, rs, cs, rs - 2, cs - 2) ELSE w7
    IN  w8

\* maze.js 68, 148
protectedNodes(s, fin) == {keyOf(s), keyOf(fin)}

\* maze.js 70-74, mutated: the protected test forgotten.
addWallUnprotected(w, prot, row, col) == w \cup {key(row, col)}

\* maze.js 70-74 (addWall) and 158-162 (setWall)
addWall(w, prot, row, col) ==
    IF key(row, col) \in prot THEN w ELSE w \cup {key(row, col)}

\* Walls added at each of the cells of a sequence, in order.
RECURSIVE addWalls(_, _, _)
addWalls(w, prot, cells) ==
    IF cells = <<>> THEN w
    ELSE addWalls(addWall(w, prot, Head(cells)[1], Head(cells)[2]), prot, Tail(cells))

\* The integers lo .. hi in increasing order.
Range(lo, hi) == [i \in 1 .. (IF hi >= lo THEN hi - lo + 1 ELSE 0) |-> lo + i - 1]

\* maze.js 77-86: the border loops.
borderCells(rs, cs) ==
    LET RowPair(r) == <<<<r, 0>>, <<r, cs - 1>>>>
        ColPair(c) == <<<<0, c>>, <<rs - 1, c>>>>
        Flat(f, n) == [i \in 1 .. 2 * n |-> f[(i + 1) \div 2][2 - (i % 2)]]
    IN  Flat([r \in 1 .. rs |-> RowPair(r - 1)], rs) \o Flat([c \in 1 .. cs |-> ColPair(c - 1)], cs)

\* maze.js 88: one call of divide, still to run.
DivideCall(minRow, maxRow, minCol, maxCol, orientation) ==
    [minRow |-> minRow, maxRow |-> maxRow, minCol |-> minCol, maxCol |-> maxCol,
     orientation |-> orientation]

\* maze.js 102-105: the wall row without its passage.
horizontalLine(call, wallRow, passageCol) ==
    LET NotPassage(c) == c # passageCol
        cs == SelectSeq(Range(call.minCol, call.maxCol), NotPassage)
    IN  [i \in 1 .. Len(cs) |-> <<wallRow, cs[i]>>]

\* maze.js 116-119: the wall column without its passage.
verticalLine(call, wallCol, passageRow) ==
    LET NotPassage(r) == r # passageRow
        rs == SelectSeq(Range(call.minRow, call.maxRow), NotPassage)
    IN  [i \in 1 .. Len(rs) |-> <<rs[i], wallCol>>]

\* maze.js 150-152
inBounds(r, c, rs, cs) == r >= 0 /\ r < rs /\ c >= 0 /\ c < cs

\* maze.js 154-156
isInterior(r, c, rs, cs) == r > 0 /\ r < rs - 1 /\ c > 0 /\ c < cs - 1

\* maze.js 169-177: every cell, row by row (both branches of the test call setWall).
allCells(rs, cs) == [i \in 1 .. rs * cs |-> <<(i - 1) \div cs, (i - 1) % cs>>]

\* maze.js 201-206, mutated: the step to the left ({ dr: 0, dc: -2 }) missing.
directionsNoLeft == <<<<-2, 0>>, <<2, 0>>, <<0, 2>>>>

\* maze.js 201-206
directions == <<<<-2, 0>>, <<2, 0>>, <<0, -2>>, <<0, 2>>>>

\* maze.js 212-220: the unvisited odd interior cells two steps from (r, c).
carveNeighbors(r, c, rs, cs, visited) ==
    LET cand == [i \in 1 .. Len(directions) |-> <<r + directions[i][1], c + directions[i][2]>>]
        Keep(n) == /\ inBounds(n[1], n[2], rs, cs) /\ isInterior(n[1], n[2], rs, cs)
                   /\ ~(n[1] % 2 = 0 \/ n[2] % 2 = 0)
                   /\ key(n[1], n[2]) \notin visited
    IN  SelectSeq(cand, Keep)

\* maze.js 243-248: the interior cells that are not walls, row by row.
openCellsOf(w, rs, cs) ==
    LET Open(c) == isInterior(c[1], c[2], rs, cs) /\ keyOf(c) \notin w
    IN  SelectSeq(allCells(rs, cs), Open)

\* maze.js 254-258: the body of nearestOpen's loop.
nearer(acc, from, cell) ==
    LET d == Abs(from[1] - cell[1]) + Abs(from[2] - cell[2])
    IN  IF d < acc.bestDist THEN [best |-> cell, bestDist |-> d] ELSE acc

\* maze.js 250-261
nearestOpen(openCells, from) ==
    LET Body(acc, cell) == nearer(acc, from, cell)
    IN  ForEach(Body, [best |-> Null, bestDist |-> Infinity], openCells).best

\* maze.js 268-271: the row loop of carveLine.
RECURSIVE carveRows(_, _, _, _, _, _)
carveRows(w, r, c, toR, rs, cs) ==
    IF r = toR THEN w
    ELSE LET r2 == IF r < toR THEN r + 1 ELSE r - 1
         IN  carveRows(IF inBounds(r2, c, rs, cs) /\ isInterior(r2, c, rs, cs)
                       THEN w \ {key(r2, c)} ELSE w, r2, c, toR, rs, cs)

\* maze.js 272-275: the column loop of carveLine.
RECURSIVE carveCols(_, _, _, _, _, _)
carveCols(w, r, c, toC, rs, cs) ==
    IF c = toC THEN w
    ELSE LET c2 == IF c < toC THEN c + 1 ELSE c - 1
         IN  carveCols(IF inBounds(r, c2, rs, cs) /\ isInterior(r, c2, rs, cs)
                       THEN w \ {key(r, c2)} ELSE w, r, c2, toC, rs, cs)

\* maze.js 263-276
carveLine(w, from, to, rs, cs) ==
    IF to = Null THEN w
    ELSE carveCols(carveRows(w, from[1], from[2], to[1], rs, cs), to[1], from[2], to[2], rs, cs)

\* maze.js 237-283: what generateRecursiveBacktrackerMaze does once the carving
\* stack is empty.
connectEndpoints(w, s, fin, rs, cs) ==
    LET w1 == (w \ {keyOf(s)}) \ {keyOf(fin)}
        openCells == openCellsOf(w1, rs, cs)
        w2 == carveLine(w1, s, nearestOpen(openCells, s), rs, cs)
        w3 == carveLine(w2, fin, nearestOpen(openCells, fin), rs, cs)
    IN  ensureEndpointOpenings(ensureEndpointOpenings(w3, rs, cs, s), rs, cs, fin)

\* ------------------------------------------------------------ state machine

WallsOf(g) == {c \in DOMAIN g : g[c].isWall}

\* computeRun 851-853: a clone of a UI grid with its working fields reset; the start
\* and the finish node are two different cells, neither a wall.
SearchInit ==
    /\ rows \in 1 .. MaxCells
    /\ cols \in 1 .. MaxCells
    /\ rows * cols <= MaxCells
    /\ \E ws \in SUBSET Cells(rows, cols) :
          /\ Cardinality(ws) <= MaxWalls
          /\ grid = cloneGridForAlgorithm(rows, cols, ws)
          /\ start \in Cells(rows, cols) \ ws
          /\ finish \in Cells(rows, cols) \ ws
    /\ start # finish
    /\ alg \in Algorithms
    /\ frontier = <<>>
    /\ visitedNodesInOrder = <<>>
    /\ pc = "start"
    /\ nodesInShortestPathOrder = <<>>
    /\ hasPath = FALSE

\* No maze generation is running.
MazeIdle ==
    /\ gen = "none"
    /\ addBorder = FALSE
    /\ walls = {}
    /\ calls = <<>>
    /\ stack = <<>>
    /\ visitedCells = {}
    /\ mpc = "idle"

\* No board: the searches and the generators run on their own.
NoBoard ==
    /\ uiGrid = <<>>
    /\ mouseIsPressed = FALSE
    /\ dragMode = "null"
    /\ wallPaintValue = TRUE
    /\ isAnimating = FALSE
    /\ algoKeys = <<>>
    /\ handler = "none"
    /\ uiOps = 0
    /\ status = "Ready"
    /\ hasVisualization = FALSE
    /\ timeouts = <<>>

Init == SearchInit /\ MazeIdle /\ NoBoard

Current == RunState(grid, frontier, visitedNodesInOrder, pc)

Become(S) ==
    /\ grid' = S.grid
    /\ frontier' = S.frontier
    /\ visitedNodesInOrder' = S.visited
    /\ pc' = S.pc
    /\ UNCHANGED <<rows, cols, start, finish, alg, nodesInShortestPathOrder, hasPath, mazeVars, uiVars>>

BfsBegin == alg = "bfs" /\ pc = "start" /\ Become(bfsBegin(grid, start))
BfsIteration == alg = "bfs" /\ pc = "loop" /\ Become(bfsIteration(Current, rows, cols, finish))

DfsBegin == alg = "dfs" /\ pc = "start" /\ Become(dfsBegin(grid, start))
DfsIteration == alg = "dfs" /\ pc = "loop" /\ Become(dfsIteration(Current, rows, cols, finish))

DijkstraBegin == alg = "dijkstra" /\ pc = "start" /\ Become(dijkstraBegin(grid, start, rows, cols))
DijkstraIteration == alg = "dijkstra" /\ pc = "loop" /\ Become(dijkstraIteration(Current, rows, cols, finish))

AstarBegin == alg = "astar" /\ pc = "start" /\ Become(astarBegin(grid, start, finish))
AstarIteration == alg = "astar" /\ pc = "loop" /\ Become(astarIteration(Current, rows, cols, finish))

GreedyBegin == alg = "greedy" /\ pc = "start" /\ Become(greedyBegin(grid, start, finish))
GreedyIteration == alg = "greedy" /\ pc = "loop" /\ Become(greedyIteration(Current, rows, cols, finish))

\* computeRun 868-883: the path is reconstructed from the finish node once the search
\* has returned (a cycle of previousNode links would keep the loop from ending).
ComputeRunResult ==
    /\ pc = "done"
    /\ ChainEnds(grid, finish, Cardinality(DOMAIN grid))
    /\ LET path == getNodesInShortestPathOrder(grid, finish)
           ok == computeHasPath(path, start, finish)
       IN  /\ nodesInShortestPathOrder' = (IF ok THEN path ELSE <<>>)
           /\ hasPath' = ok
    /\ pc' = "reported"
    /\ UNCHANGED <<rows, cols, start, finish, alg, grid, frontier, visitedNodesInOrder, mazeVars, uiVars>>

SearchNext ==
    \/ BfsBegin \/ BfsIteration
    \/ DfsBegin \/ DfsIteration
    \/ DijkstraBegin \/ DijkstraIteration
    \/ AstarBegin \/ AstarIteration
    \/ GreedyBegin \/ GreedyIteration
    \/ ComputeRunResult

Next == SearchNext

Spec == Init /\ [][Next]_vars

\* ------------------------------------------------- maze state machine

\* No search is running.
SearchIdle ==
    /\ alg = "none"
    /\ grid = <<>>
    /\ frontier = <<>>
    /\ visitedNodesInOrder = <<>>
    /\ pc = "idle"
    /\ nodesInShortestPathOrder = <<>>
    /\ hasPath = FALSE

\* A generator has been called and has run nothing yet.
GeneratorCalled ==
    /\ walls = {}
    /\ calls = <<>>
    /\ stack = <<>>
    /\ visitedCells = {}
    /\ mpc = "start"

\* A generator called for a grid of at most MaxMazeRows x MaxMazeCols cells, with any
\* two different cells for start and finish.
MazeInit ==
    /\ rows \in 1 .. MaxMazeRows
    /\ cols \in 1 .. MaxMazeCols
    /\ start \in Cells(rows, cols)
    /\ finish \in Cells(rows, cols)
    /\ start # finish
    /\ gen \in {"division", "backtracker"}
    /\ addBorder \in BOOLEAN
    /\ GeneratorCalled
    /\ SearchIdle
    /\ NoBoard

\* maze.js 67-86 and 126: the border, then the first call of divide.
DivisionBegin ==
    /\ gen = "division" /\ mpc = "start"
    /\ walls' = (IF addBorder
                 THEN addWalls({}, protectedNodes(start, finish), borderCells(rows, cols))
                 ELSE {})
    /\ \E o \in chooseOrientation(cols, rows) :
          calls' = <<DivideCall(1, rows - 2, 1, cols - 2, o)>>
    /\ mpc' = "divide"
    /\ UNCHANGED <<rows, cols, start, finish, searchVars, uiVars, gen, addBorder, stack, visitedCells>>

\* maze.js 88-123: one call of divide; its two recursive calls run next, in order.
Divide ==
    /\ gen = "division" /\ mpc = "divide" /\ calls # <<>>
    /\ LET call == Head(calls)
           width == call.maxCol - call.minCol + 1
           height == call.maxRow - call.minRow + 1
           prot == protectedNodes(start, finish)
       IN  IF width < 3 \/ height < 3
           THEN /\ calls' = Tail(calls)
                /\ walls' = walls
           ELSE \E nextOrientation \in chooseOrientation(width, height) :
                  IF call.orientation = "horizontal"
                  THEN \E wallRow \in OrElse(randomEven(call.minRow + 1, call.maxRow - 1),
                                             (call.minRow + call.maxRow) \div 2) :
                       \E passageCol \in OrElse(randomOdd(call.minCol, call.maxCol),
                                                (call.minCol + call.maxCol) \div 2) :
                          /\ walls' = addWalls(walls, prot, horizontalLine(call, wallRow, passageCol))
                          /\ calls' = <<DivideCall(call.minRow, wallRow - 1, call.minCol, call.maxCol, nextOrientation),
                                        DivideCall(wallRow + 1, call.maxRow, call.minCol, call.maxCol, nextOrientation)>>
                                      \o Tail(calls)
                  ELSE \E wallCol \in OrElse(randomEven(call.minCol + 1, call.maxCol - 1),
                                             (call.minCol + call.maxCol) \div 2) :
                       \E passageRow \in OrElse(randomOdd(call.minRow, call.maxRow),
                                                (call.minRow + call.maxRow) \div 2) :
                          /\ walls' = addWalls(walls, prot, verticalLine(call, wallCol, passageRow))
                          /\ calls' = <<DivideCall(call.minRow, call.maxRow, call.minCol, wallCol - 1, nextOrientation),
                                        DivideCall(call.minRow, call.maxRow, wallCol + 1, call.maxCol, nextOrientation)>>
                                      \o Tail(calls)
    /\ UNCHANGED <<rows, cols, start, finish, searchVars, uiVars, gen, addBorder, stack, visitedCells, mpc>>

\* maze.js 128-132: the endpoint openings, then the return.
DivisionReturn ==
    /\ gen = "division" /\ mpc = "divide" /\ calls = <<>>
    /\ walls' = ensureEndpointOpenings(ensureEndpointOpenings(walls, rows, cols, start),
                                       rows, cols, finish)
    /\ mpc' = "returned"
    /\ UNCHANGED <<rows, cols, start, finish, searchVars, uiVars, gen, addBorder, calls, stack, visitedCells>>

\* maze.js 147-200: everything walled, then a random odd interior cell carved.
BacktrackerBegin ==
    /\ gen = "backtracker" /\ mpc = "start"
    /\ \E startRow \in OrElse(randomOdd(1, rows - 2), 1) :
       \E startCol \in OrElse(randomOdd(1, cols - 2), 1) :
          /\ walls' = addWalls({}, protectedNodes(start, finish), allCells(rows, cols))
                        \ {key(startRow, startCol)}
          /\ visitedCells' = {key(startRow, startCol)}
          /\ stack' = <<<<startRow, startCol>>>>
    /\ mpc' = "carve"
    /\ UNCHANGED <<rows, cols, start, finish, searchVars, uiVars, gen, addBorder, calls>>

\* maze.js 208-235: one iteration of the carving loop.
Carve ==
    /\ gen = "backtracker" /\ mpc = "carve" /\ stack # <<>>
    /\ LET current == stack[Len(stack)]
           neighbors == carveNeighbors(current[1], current[2], rows, cols, visitedCells)
       IN  IF neighbors = <<>>
           THEN /\ stack' = SubSeq(stack, 1, Len(stack) - 1)
                /\ UNCHANGED <<walls, visitedCells>>
           ELSE \E i \in 1 .. Len(neighbors) :
                  LET next == neighbors[i]
                      wallR == (current[1] + next[1]) \div 2
                      wallC == (current[2] + next[2]) \div 2
                  IN  /\ walls' = (walls \ {key(wallR, wallC)}) \ {keyOf(next)}
                      /\ visitedCells' = visitedCells \cup {keyOf(next)}
                      /\ stack' = Append(stack, next)
    /\ UNCHANGED <<rows, cols, start, finish, searchVars, uiVars, gen, addBorder, calls, mpc>>

\* maze.js 237-285: the endpoints cleared and connected, then the return.
BacktrackerReturn ==
    /\ gen = "backtracker" /\ mpc = "carve" /\ stack = <<>>
    /\ walls' = connectEndpoints(walls, start, finish, rows, cols)
    /\ mpc' = "returned"
    /\ UNCHANGED <<rows, cols, start, finish, searchVars, uiVars, gen, addBorder, calls, stack, visitedCells>>

DivisionNext == DivisionBegin \/ Divide \/ DivisionReturn

BacktrackerNext == BacktrackerBegin \/ Carve \/ BacktrackerReturn

MazeNext == DivisionNext \/ BacktrackerNext

MazeSpec == MazeInit /\ [][MazeNext]_vars

\* The endpoints tried on the large grid: two opposite corners and the centre.
LargeEndpoints ==
    {<<0, 0>>, <<LargeMazeSize \div 2, LargeMazeSize \div 2>>,
     <<LargeMazeSize - 1, LargeMazeSize - 1>>}

\* generateMaze (PathfindingVisualizer.jsx 777-784): recursive division called with
\* addBorder: true, here for the large square grid.
LargeDivisionInit ==
    /\ rows = LargeMazeSize
    /\ cols = LargeMazeSize
    /\ start \in LargeEndpoints
    /\ finish \in LargeEndpoints
    /\ start # finish
    /\ gen = "division"
    /\ addBorder = TRUE
    /\ GeneratorCalled
    /\ SearchIdle
    /\ NoBoard

LargeDivisionSpec == LargeDivisionInit /\ [][DivisionNext]_vars

\* generateMaze (PathfindingVisualizer.jsx 792-799): the recursive backtracker called
\* with addBorder: true, here for the square grid of even size.
EvenBacktrackerInit ==
    /\ rows = EvenMazeSize
    /\ cols = EvenMazeSize
    /\ start \in Cells(rows, cols)
    /\ finish \in Cells(rows, cols)
    /\ start # finish
    /\ gen = "backtracker"
    /\ addBorder = TRUE
    /\ GeneratorCalled
    /\ SearchIdle
    /\ NoBoard

EvenBacktrackerSpec == EvenBacktrackerInit /\ [][BacktrackerNext]_vars

\* generateRecursiveDivisionMaze called for every grid of at most LatticeMazeSize x
\* LatticeMazeSize cells, even and odd sizes alike, with the endpoints in two opposite
\* corners or side by side in the middle of the top row.
LatticeDivisionInit ==
    /\ rows \in 1 .. LatticeMazeSize
    /\ cols \in 2 .. LatticeMazeSize
    /\ \/ start = <<0, 0>> /\ finish = <<rows - 1, cols - 1>>
       \/ start = <<0, cols \div 2 - 1>> /\ finish = <<0, cols \div 2>>
    /\ gen = "division"
    /\ addBorder \in BOOLEAN
    /\ GeneratorCalled
    /\ SearchIdle
    /\ NoBoard

LatticeDivisionSpec == LatticeDivisionInit /\ [][DivisionNext]_vars

\* ------------------------------------------------- runs to completion

\* A search called on a clone, or a generator called: the core operations.
RunInit == (SearchInit /\ MazeIdle /\ NoBoard) \/ MazeInit

RunNext == SearchNext \/ MazeNext

RunSpec == RunInit /\ [][RunNext]_vars

\* ----------------------------------------------------------- the board

\* PathfindingVisualizer.jsx 468-475
DEFAULT_ROWS == 20
DEFAULT_COLS == 50
MIN_ROWS == 5
MAX_ROWS == 60
MIN_COLS == 10
MAX_COLS == 120

\* PathfindingVisualizer.jsx 480-482
clamp(n, min, max) ==
    LET lower == IF max < n THEN max ELSE n
    IN  IF min > lower THEN min ELSE lower

\* PathfindingVisualizer.jsx 491-502
getDefaultEndpoints(rs, cs) ==
    LET row == clamp(rs \div 2, 0, rs - 1)
        startCol == clamp(5, 0, cs - 1)
        finishCol == clamp(cs - 6, 0, cs - 1)
    IN  [start |-> <<row, startCol>>,
         finish |-> IF finishCol = startCol THEN <<row, clamp(cs - 1, 0, cs - 1)>>
                    ELSE <<row, finishCol>>]

\* PathfindingVisualizer.jsx 504-509
clampPos(pos, rs, cs) == <<clamp(pos[1], 0, rs - 1), clamp(pos[2], 0, cs - 1)>>

\* PathfindingVisualizer.jsx 511-513
wallKey(row, col) == ToString(row) \o "-" \o ToString(col)

\* PathfindingVisualizer.jsx 515-526 (row and col are the cell the node is stored at)
createNode(col, row, s, fin) ==
    [isStart |-> (row = s[1] /\ col = s[2]),
     isFinish |-> (row = fin[1] /\ col = fin[2]),
     distance |-> Infinity,
     isVisited |-> FALSE,
     isWall |-> FALSE,
     previousNode |-> Null]

\* PathfindingVisualizer.jsx 528-538
buildInitialGrid(rs, cs, s, fin) ==
    [c \in Cells(rs, cs) |-> createNode(c[2], c[1], s, fin)]

\* PathfindingVisualizer.jsx 674-684: the updater setGridNodeWall gives to setGrid.
setGridNodeWall(prevGrid, c, isWall) ==
    IF prevGrid[c].isStart \/ prevGrid[c].isFinish THEN prevGrid
    ELSE [prevGrid EXCEPT ![c].isWall = isWall]

\* PathfindingVisualizer.jsx 687-713: the updater moveEndpoint gives to setGrid; `from`
\* is the startPos or finishPos of the render the handler belongs to.
moveEndpointGrid(prevGrid, endpoint, to, from) ==
    LET toNode == prevGrid[to]
        fromNode == prevGrid[from]
        cleared == [prevGrid EXCEPT ![from] =
                       [fromNode EXCEPT !.isStart = IF endpoint = "start" THEN FALSE ELSE @,
                                        !.isFinish = IF endpoint = "finish" THEN FALSE ELSE @]]
    IN  IF toNode.isWall THEN prevGrid
        ELSE IF endpoint = "start" /\ toNode.isFinish THEN prevGrid
        ELSE IF endpoint = "finish" /\ toNode.isStart THEN prevGrid
        ELSE [cleared EXCEPT ![to] = [toNode EXCEPT !.isStart = (endpoint = "start"),
                                                    !.isFinish = (endpoint = "finish")]]

\* PathfindingVisualizer.jsx 764-768: the updater clearWalls gives to setGrid.
clearWallsGrid(prevGrid) ==
    [c \in DOMAIN prevGrid |-> IF prevGrid[c].isWall THEN [prevGrid[c] EXCEPT !.isWall = FALSE]
                                ELSE prevGrid[c]]

\* PathfindingVisualizer.jsx 801-808: the updater generateMaze gives to setGrid.
applyMaze(prevGrid, ws) ==
    [c \in DOMAIN prevGrid |->
        IF prevGrid[c].isStart \/ prevGrid[c].isFinish
        THEN [prevGrid[c] EXCEPT !.isWall = FALSE]
        ELSE [prevGrid[c] EXCEPT !.isWall = (wallKey(c[1], c[2]) \in ws)]]

\* PathfindingVisualizer.jsx 817-838: the sizes, the endpoints and the grid applyGridSize
\* sets, from the two parsed inputs and the present endpoints.
applyGridSize(requestedRows, requestedCols, s, fin) ==
    LET nextRows == clamp(requestedRows, MIN_ROWS, MAX_ROWS)
        nextCols == clamp(requestedCols, MIN_COLS, MAX_COLS)
        clampedStart == clampPos(s, nextRows, nextCols)
        clampedFinish == clampPos(fin, nextRows, nextCols)
        defaults == getDefaultEndpoints(nextRows, nextCols)
        nextStart == IF clampedStart = clampedFinish THEN defaults.start ELSE clampedStart
        nextFinish == IF clampedStart = clampedFinish THEN defaults.finish ELSE clampedFinish
    IN  [rows |-> nextRows, cols |-> nextCols, start |-> nextStart, finish |-> nextFinish,
         grid |-> buildInitialGrid(nextRows, nextCols, nextStart, nextFinish)]

\* PathfindingVisualizer.jsx 564: the endpoints of the first render.
initialEndpoints == getDefaultEndpoints(DEFAULT_ROWS, DEFAULT_COLS)

\* The sizes typed into the two inputs: the smallest size and one below it.
SizeInputs == {[rows |-> r, cols |-> c] : r \in {MIN_ROWS - 1, MIN_ROWS}, c \in {MIN_COLS - 1, MIN_COLS}}

\* The board the component shows once the first board (DEFAULT_ROWS x DEFAULT_COLS) was
\* resized to the smallest size.
SmallBoard ==
    applyGridSize(MIN_ROWS, MIN_COLS, initialEndpoints.start, initialEndpoints.finish)

\* The cells the mouse goes over: the two endpoints of the small board and the cell
\* beside its start.
MouseCells == {SmallBoard.start, Right(SmallBoard.start), SmallBoard.finish}

\* PathfindingVisualizer.jsx 581: the values of mazeType that have a generator here.
MazeTypes == {"division", "backtracker"}

\* PathfindingVisualizer.jsx 589
controlsDisabled == isAnimating

\* PathfindingVisualizer.jsx 640-657: what clearVisualizationOnly does to the state (the
\* class names it resets belong to the document).
clearVisualizationOnly ==
    /\ timeouts' = <<>>
    /\ status' = "Ready"
    /\ isAnimating' = FALSE
    /\ hasVisualization' = FALSE

\* No handler is in the middle of a call, and the user may still operate.
Idle == handler = "none" /\ uiOps < MaxUiOps

BoardInit ==
    /\ rows = SmallBoard.rows
    /\ cols = SmallBoard.cols
    /\ start = SmallBoard.start
    /\ finish = SmallBoard.finish
    /\ uiGrid = SmallBoard.grid
    /\ mouseIsPressed = FALSE
    /\ dragMode = "null"
    /\ wallPaintValue = TRUE
    /\ isAnimating = FALSE
    /\ algoKeys = <<>>
    /\ handler = "none"
    /\ uiOps = 0
    /\ status = "Ready"
    /\ hasVisualization = FALSE
    /\ timeouts = <<>>
    /\ SearchIdle
    /\ MazeIdle

\* PathfindingVisualizer.jsx 719-738
HandleMouseDown ==
    /\ Idle /\ ~controlsDisabled
    /\ IF hasVisualization THEN clearVisualizationOnly ELSE UNCHANGED <<isAnimating, animVars>>
    /\ \E c \in MouseCells \cap DOMAIN uiGrid :
          LET node == uiGrid[c]
          IN  /\ mouseIsPressed' = TRUE
              /\ IF node.isStart
                 THEN dragMode' = "start" /\ UNCHANGED <<wallPaintValue, uiGrid>>
                 ELSE IF node.isFinish
                 THEN dragMode' = "finish" /\ UNCHANGED <<wallPaintValue, uiGrid>>
                 ELSE /\ dragMode' = "wall"
                      /\ wallPaintValue' = ~node.isWall
                      /\ uiGrid' = setGridNodeWall(uiGrid, c, ~node.isWall)
    /\ uiOps' = uiOps + 1
    /\ UNCHANGED <<rows, cols, start, finish, searchVars, mazeVars, algoKeys, handler>>

\* PathfindingVisualizer.jsx 740-754 (with moveEndpoint, 686-717)
HandleMouseEnter ==
    /\ Idle /\ mouseIsPressed /\ ~controlsDisabled
    /\ \E c \in MouseCells \cap DOMAIN uiGrid :
          CASE dragMode = "wall" ->
                  /\ uiGrid' = setGridNodeWall(uiGrid, c, wallPaintValue)
                  /\ UNCHANGED <<start, finish>>
            [] dragMode = "start" ->
                  /\ uiGrid' = moveEndpointGrid(uiGrid, "start", c, start)
                  /\ start' = c
                  /\ UNCHANGED finish
            [] dragMode = "finish" ->
                  /\ uiGrid' = moveEndpointGrid(uiGrid, "finish", c, finish)
                  /\ finish' = c
                  /\ UNCHANGED start
            [] OTHER -> UNCHANGED <<uiGrid, start, finish>>
    /\ uiOps' = uiOps + 1
    /\ UNCHANGED <<rows, cols, searchVars, mazeVars, mouseIsPressed, dragMode, wallPaintValue,
                   isAnimating, algoKeys, handler, animVars>>

\* PathfindingVisualizer.jsx 756-759 (and endDrag, 628-631)
HandleMouseUp ==
    /\ Idle /\ uiGrid # <<>>
    /\ mouseIsPressed' = FALSE
    /\ dragMode' = "null"
    /\ uiOps' = uiOps + 1
    /\ UNCHANGED <<rows, cols, start, finish, searchVars, mazeVars, uiGrid, wallPaintValue,
                   isAnimating, algoKeys, handler, animVars>>

\* PathfindingVisualizer.jsx 761-769
ClearWalls ==
    /\ Idle /\ uiGrid # <<>> /\ ~controlsDisabled
    /\ clearVisualizationOnly
    /\ uiGrid' = clearWallsGrid(uiGrid)
    /\ uiOps' = uiOps + 1
    /\ UNCHANGED <<rows, cols, start, finish, searchVars, mazeVars, mouseIsPressed, dragMode,
                   wallPaintValue, algoKeys, handler>>

\* PathfindingVisualizer.jsx 771-799: generateMaze up to its call of the generator.
GenerateMazeCall ==
    /\ Idle /\ uiGrid # <<>> /\ ~controlsDisabled
    /\ gen' \in MazeTypes
    /\ addBorder' = TRUE
    /\ walls' = {}
    /\ calls' = <<>>
    /\ stack' = <<>>
    /\ visitedCells' = {}
    /\ mpc' = "start"
    /\ handler' = "generateMaze"
    /\ timeouts' = <<>>
    /\ isAnimating' = FALSE
    /\ hasVisualization' = FALSE
    /\ status' = "Generating maze..."
    /\ uiOps' = uiOps + 1
    /\ UNCHANGED <<rows, cols, start, finish, searchVars, uiGrid, mouseIsPressed, dragMode,
                   wallPaintValue, algoKeys>>

\* PathfindingVisualizer.jsx 801-810: generateMaze once the generator has returned.
GenerateMazeApply ==
    /\ handler = "generateMaze" /\ mpc = "returned"
    /\ uiGrid' = applyMaze(uiGrid, walls)
    /\ gen' = "none"
    /\ addBorder' = FALSE
    /\ walls' = {}
    /\ calls' = <<>>
    /\ stack' = <<>>
    /\ visitedCells' = {}
    /\ mpc' = "idle"
    /\ handler' = "none"
    /\ status' = "Ready"
    /\ UNCHANGED <<rows, cols, start, finish, searchVars, mouseIsPressed, dragMode,
                   wallPaintValue, isAnimating, algoKeys, uiOps, hasVisualization, timeouts>>

\* PathfindingVisualizer.jsx 813-840
ApplyGridSize ==
    /\ Idle /\ uiGrid # <<>> /\ ~controlsDisabled
    /\ \E input \in SizeInputs :
          LET b == applyGridSize(input.rows, input.cols, start, finish)
          IN  /\ rows' = b.rows
              /\ cols' = b.cols
              /\ start' = b.start
              /\ finish' = b.finish
              /\ uiGrid' = b.grid
    /\ clearVisualizationOnly
    /\ uiOps' = uiOps + 1
    /\ UNCHANGED <<searchVars, mazeVars, mouseIsPressed, dragMode, wallPaintValue, algoKeys,
                   handler>>

\* PathfindingVisualizer.jsx 842-848
ResetBoard ==
    /\ Idle /\ uiGrid # <<>>
    /\ LET defaults == getDefaultEndpoints(rows, cols)
       IN  /\ start' = defaults.start
           /\ finish' = defaults.finish
           /\ uiGrid' = buildInitialGrid(rows, cols, defaults.start, defaults.finish)
    /\ clearVisualizationOnly
    /\ uiOps' = uiOps + 1
    /\ UNCHANGED <<rows, cols, searchVars, mazeVars, mouseIsPressed, dragMode, wallPaintValue,
                   algoKeys, handler>>

BoardNext ==
    \/ HandleMouseDown \/ HandleMouseEnter \/ HandleMouseUp
    \/ ClearWalls
    \/ GenerateMazeCall \/ MazeNext \/ GenerateMazeApply
    \/ ApplyGridSize
    \/ ResetBoard

BoardSpec == BoardInit /\ [][BoardNext]_vars

\* ------------------------------------------------- the runs of the board

\* The cells painted as walls before the runs: the neighbours of the small board's
\* start (all three are walls: no path).
PaintedCells == {Up(SmallBoard.start), Left(SmallBoard.start), Right(SmallBoard.start)}

\* PathfindingVisualizer.jsx 994
benchmarkKeys == <<"astar", "dijkstra", "bfs", "greedy", "dfs">>

\* The small board with walls painted on some of the painted cells, no run so far.
PaintedInit ==
    /\ rows = SmallBoard.rows
    /\ cols = SmallBoard.cols
    /\ start = SmallBoard.start
    /\ finish = SmallBoard.finish
    /\ \E ws \in SUBSET PaintedCells :
          uiGrid = [c \in DOMAIN SmallBoard.grid |->
                       IF c \in ws THEN setGridNodeWall(SmallBoard.grid, c, TRUE)[c]
                       ELSE SmallBoard.grid[c]]
    /\ mouseIsPressed = FALSE
    /\ dragMode = "null"
    /\ wallPaintValue = TRUE
    /\ isAnimating = FALSE
    /\ algoKeys = <<>>
    /\ handler = "none"
    /\ uiOps = 0
    /\ status = "Ready"
    /\ hasVisualization = FALSE
    /\ timeouts = <<>>
    /\ SearchIdle
    /\ MazeIdle

\* PathfindingVisualizer.jsx 582: the delay between two visited cells, as the component
\* starts with it.
visitDelayMs == 10

\* PathfindingVisualizer.jsx 908: Math.max(20, Math.round(visitDelayMs * 4))
pathDelayMs == IF visitDelayMs * 4 > 20 THEN visitDelayMs * 4 ELSE 20

\* One timer that writes the component's state: what its callback does ("done": the
\* callback of 919-923, "blocked": that of 971-975) and the delay it was scheduled
\* with. The callbacks of 911-917 and 935-940 only set the class name of an element of
\* the document and read and write no state, so their timers are not kept here.
Timer(does, delayMs) == [does |-> does, delayMs |-> delayMs]

\* PathfindingVisualizer.jsx 591-594: scheduleTimeout. The timers of one handler start
\* together, so they fire by delay, those of equal delay in the order of scheduling.
RECURSIVE scheduleTimeout(_, _, _)
scheduleTimeout(ts, does, delayMs) ==
    IF ts = <<>> THEN <<Timer(does, delayMs)>>
    ELSE IF ts[Len(ts)].delayMs <= delayMs THEN Append(ts, Timer(does, delayMs))
    ELSE Append(scheduleTimeout(SubSeq(ts, 1, Len(ts) - 1), does, delayMs), ts[Len(ts)])

\* PathfindingVisualizer.jsx 907-924: the timer after the last cell of the path.
animateShortestPath(ts, pathLength, baseDelayMs) ==
    scheduleTimeout(ts, "done", baseDelayMs + pathDelayMs * pathLength + 10)

\* PathfindingVisualizer.jsx 926-944: the path is animated once every visited cell is.
animateVisitedNodes(ts, visitedLength, pathLength) ==
    animateShortestPath(ts, pathLength, visitDelayMs * visitedLength)

\* PathfindingVisualizer.jsx 851, mutated: the clone made once and used by every run.
gridForAlgoShared ==
    IF grid = <<>> THEN cloneGridForAlgorithm(rows, cols, WallsOf(uiGrid)) ELSE grid

\* PathfindingVisualizer.jsx 851: const gridForAlgo = cloneGridForAlgorithm(grid)
gridForAlgo == cloneGridForAlgorithm(rows, cols, WallsOf(uiGrid))

\* computeRun's locals once the handler that called it is done with them.
DropRun ==
    /\ alg' = "none"
    /\ grid' = <<>>
    /\ frontier' = <<>>
    /\ visitedNodesInOrder' = <<>>
    /\ pc' = "idle"
    /\ nodesInShortestPathOrder' = <<>>
    /\ hasPath' = FALSE

\* PathfindingVisualizer.jsx 946-954: visualize up to its call of computeRun, for the
\* algorithm selected.
Visualize ==
    /\ Idle /\ uiGrid # <<>> /\ ~isAnimating
    /\ timeouts' = <<>>
    /\ isAnimating' = TRUE
    /\ status' = "Visualizing..."
    /\ hasVisualization' = TRUE
    /\ \E algorithm \in Algorithms : algoKeys' = <<algorithm>>
    /\ handler' = "visualize"
    /\ uiOps' = uiOps + 1
    /\ UNCHANGED <<rows, cols, start, finish, searchVars, mazeVars, uiGrid, mouseIsPressed,
                   dragMode, wallPaintValue>>

\* PathfindingVisualizer.jsx 988-996: benchmarkAll up to its loop over the keys.
BenchmarkAll ==
    /\ Idle /\ uiGrid # <<>> /\ ~controlsDisabled
    /\ timeouts' = <<>>
    /\ isAnimating' = FALSE
    /\ hasVisualization' = FALSE
    /\ status' = "Benchmarking all algorithms..."
    /\ algoKeys' = benchmarkKeys
    /\ handler' = "benchmarkAll"
    /\ uiOps' = uiOps + 1
    /\ UNCHANGED <<rows, cols, start, finish, searchVars, mazeVars, uiGrid, mouseIsPressed,
                   dragMode, wallPaintValue>>

\* PathfindingVisualizer.jsx 850-853: computeRun called for the next key: the clone and
\* its start and finish node (the cells at startPos and finishPos).
ComputeRun ==
    /\ handler \in {"visualize", "benchmarkAll"}
    /\ pc \in {"idle", "reported"}
    /\ algoKeys # <<>>
    /\ alg' = Head(algoKeys)
    /\ algoKeys' = Tail(algoKeys)
    /\ grid' = gridForAlgo
    /\ frontier' = <<>>
    /\ visitedNodesInOrder' = <<>>
    /\ nodesInShortestPathOrder' = <<>>
    /\ hasPath' = FALSE
    /\ pc' = "start"
    /\ UNCHANGED <<rows, cols, start, finish, mazeVars, uiGrid, mouseIsPressed, dragMode,
                   wallPaintValue, isAnimating, handler, uiOps, animVars>>

\* PathfindingVisualizer.jsx 955-981: visualize once computeRun has returned: the
\* timers of the animation, and for a run without a path the timer of the blocked
\* status after them.
VisualizeReturn ==
    /\ handler = "visualize" /\ pc = "reported" /\ algoKeys = <<>>
    /\ IF ~hasPath
       THEN /\ timeouts' = scheduleTimeout(
                              animateVisitedNodes(timeouts, Len(visitedNodesInOrder), 0),
                              "blocked", visitDelayMs * Len(visitedNodesInOrder) + 50)
            /\ status' = status
       ELSE /\ status' = "Visualizing... Compute"
            /\ timeouts' = animateVisitedNodes(timeouts, Len(visitedNodesInOrder),
                                               Len(nodesInShortestPathOrder))
    /\ DropRun
    /\ handler' = "none"
    /\ UNCHANGED <<rows, cols, start, finish, mazeVars, uiGrid, mouseIsPressed, dragMode,
                   wallPaintValue, isAnimating, algoKeys, uiOps, hasVisualization>>

\* PathfindingVisualizer.jsx 1013-1016: benchmarkAll once its loop has ended.
BenchmarkAllReturn ==
    /\ handler = "benchmarkAll" /\ pc = "reported" /\ algoKeys = <<>>
    /\ DropRun
    /\ handler' = "none"
    /\ status' = "Ready"
    /\ UNCHANGED <<rows, cols, start, finish, mazeVars, uiGrid, mouseIsPressed, dragMode,
                   wallPaintValue, isAnimating, algoKeys, uiOps, hasVisualization, timeouts>>

\* PathfindingVisualizer.jsx 919-923 and 971-975: the next timer fires and its callback
\* runs.
TimerFires ==
    /\ handler = "none" /\ timeouts # <<>>
    /\ timeouts' = Tail(timeouts)
    /\ isAnimating' = FALSE
    /\ status' = (IF Head(timeouts).does = "done" THEN "Done" ELSE "No path found (blocked)")
    /\ hasVisualization' = TRUE
    /\ UNCHANGED <<rows, cols, start, finish, searchVars, mazeVars, uiGrid, mouseIsPressed,
                   dragMode, wallPaintValue, algoKeys, handler, uiOps>>

\* PathfindingVisualizer.jsx 659-667
StopAnimation ==
    /\ Idle /\ isAnimating
    /\ timeouts' = <<>>
    /\ isAnimating' = FALSE
    /\ status' = "Stopped"
    /\ hasVisualization' = TRUE
    /\ uiOps' = uiOps + 1
    /\ UNCHANGED <<rows, cols, start, finish, searchVars, mazeVars, uiGrid, mouseIsPressed,
                   dragMode, wallPaintValue, algoKeys, handler>>

\* PathfindingVisualizer.jsx 1112-1114: the Clear Path button.
ClearPath ==
    /\ Idle /\ uiGrid # <<>> /\ ~controlsDisabled
    /\ clearVisualizationOnly
    /\ uiOps' = uiOps + 1
    /\ UNCHANGED <<rows, cols, start, finish, searchVars, mazeVars, uiGrid, mouseIsPressed,
                   dragMode, wallPaintValue, algoKeys, handler>>

RunsNext ==
    \/ Visualize \/ BenchmarkAll
    \/ ComputeRun \/ SearchNext
    \/ VisualizeReturn \/ BenchmarkAllReturn
    \/ TimerFires \/ StopAnimation \/ ClearPath

RunsSpec == PaintedInit /\ [][RunsNext]_vars

\* ------------------------------------------------------------ the scenario

\* The square grid without walls, start in the top left corner and finish in the
\* bottom right corner, handed to each of the five searches.
ScenarioInit ==
    /\ rows = ScenarioSize
    /\ cols = ScenarioSize
    /\ grid = cloneGridForAlgorithm(rows, cols, {})
    /\ start = <<0, 0>>
    /\ finish = <<ScenarioSize - 1, ScenarioSize - 1>>
    /\ alg \in Algorithms
    /\ frontier = <<>>
    /\ visitedNodesInOrder = <<>>
    /\ pc = "start"
    /\ nodesInShortestPathOrder = <<>>
    /\ hasPath = FALSE
    /\ MazeIdle
    /\ NoBoard

ScenarioSpec == ScenarioInit /\ [][SearchNext]_vars

\* ------------------------------------------------------- invalid inputs

\* A search called with the same node for start and finish.
SameNodeInit ==
    /\ rows \in 1 .. MaxCells
    /\ cols \in 1 .. MaxCells
    /\ rows * cols <= MaxCells
    /\ \E ws \in SUBSET Cells(rows, cols) :
          /\ Cardinality(ws) <= MaxWalls
          /\ grid = cloneGridForAlgorithm(rows, cols, ws)
          /\ start \in Cells(rows, cols) \ ws
    /\ finish = start
    /\ alg \in Algorithms
    /\ frontier = <<>>
    /\ visitedNodesInOrder = <<>>
    /\ pc = "start"
    /\ nodesInShortestPathOrder = <<>>
    /\ hasPath = FALSE

\* A generator called with start equal to finish, or with a start one row or one
\* column outside the grid.
OutsideInit ==
    /\ rows \in 1 .. MaxMazeRows
    /\ cols \in 1 .. MaxMazeCols
    /\ finish \in Cells(rows, cols)
    /\ start \in {finish, <<rows, finish[2]>>, <<finish[1], cols>>}
    /\ gen \in {"division", "backtracker"}
    /\ addBorder \in BOOLEAN
    /\ GeneratorCalled
    /\ SearchIdle
    /\ NoBoard

InvalidInputInit == (SameNodeInit /\ MazeIdle /\ NoBoard) \/ OutsideInit

InvalidInputSpec == InvalidInputInit /\ [][RunNext]_vars

\* ------------------------------------------------------ reference notions

Adjacent(a, b) == manhattan(a, b) = 1

\* The number of moves of a shortest 4-connected route inside `free` from the cells of
\* `front` (already d moves from the source) to target; Infinity when there is none.
RECURSIVE DistFrom(_, _, _, _, _)
DistFrom(seen, front, d, target, free) ==
    IF target \in front THEN d
    ELSE IF front = {} THEN Infinity
    ELSE LET nxt == {c \in free \ seen : \E b \in front : Adjacent(b, c)}
         IN  DistFrom(seen \cup nxt, nxt, d + 1, target, free)

ShortestDist(g, s, fin) == DistFrom({s}, {s}, 0, fin, DOMAIN g \ WallsOf(g))

Routed == ShortestDist(grid, start, finish) < Infinity

Returned == pc \in {"done", "reported"}

ReachedFinish == Contains(visitedNodesInOrder, finish)

PathNow == getNodesInShortestPathOrder(grid, finish)

Occurrences(s, x) == Cardinality({i \in 1 .. Len(s) : s[i] = x})

\* ------------------------------------------------------------------ claims

\* C1: when a wall-free route joins start and finish, the path reconstructed after
\* bfs, after dijkstra and after astar has exactly (shortest route length + 1) cells,
\* so the three have the same number of cells.
C1_OptimalPathLength ==
    (Returned /\ alg \in {"bfs", "dijkstra", "astar"} /\ Routed)
        => Len(PathNow) = ShortestDist(grid, start, finish) + 1

\* C1 witness: astar has returned on a grid where the walls force a detour.
C1_Witness ==
    /\ pc = "done" /\ alg = "astar" /\ Routed
    /\ ShortestDist(grid, start, finish) > manhattan(start, finish)
    /\ Len(PathNow) = ShortestDist(grid, start, finish) + 1

\* C2: when a route exists, the returned visited list holds finish exactly once, as
\* its last element; as soon as finish is in the list the run has returned.
C2_FinishIsLast ==
    /\ (Returned /\ Routed) =>
          /\ visitedNodesInOrder # <<>>
          /\ visitedNodesInOrder[Len(visitedNodesInOrder)] = finish
          /\ Occurrences(visitedNodesInOrder, finish) = 1
    /\ ReachedFinish =>
          /\ Returned
          /\ visitedNodesInOrder[Len(visitedNodesInOrder)] = finish

\* C2 witness: greedy returned with finish last while cells were still in the open set.
C2_Witness ==
    /\ pc = "done" /\ alg = "greedy" /\ Routed
    /\ frontier # <<>>
    /\ Len(visitedNodesInOrder) >= 3
    /\ visitedNodesInOrder[Len(visitedNodesInOrder)] = finish

\* C3: after a run that reached finish, the reconstructed path begins with start, ends
\* with finish, joins orthogonally adjacent cells only and holds no wall.
C3_PathIsValid ==
    (Returned /\ ReachedFinish) =>
        /\ PathNow # <<>>
        /\ PathNow[1] = start
        /\ PathNow[Len(PathNow)] = finish
        /\ \A i \in 1 .. Len(PathNow) - 1 : Adjacent(PathNow[i], PathNow[i + 1])
        /\ \A i \in 1 .. Len(PathNow) : ~grid[PathNow[i]].isWall

\* C3 witness: dfs reached finish by a path of at least four cells beside a wall.
C3_Witness ==
    /\ pc = "done" /\ alg = "dfs" /\ ReachedFinish
    /\ Len(PathNow) >= 4
    /\ WallsOf(grid) # {}
    /\ PathNow[1] = start

\* Whether fin can be reached from s by 4-connected moves through the cells of the
\* rs x cs grid whose key is not in the wall set w.
Connected(w, rs, cs, s, fin) ==
    DistFrom({s}, {s}, 0, fin, {c \in Cells(rs, cs) : keyOf(c) \notin w}) < Infinity

\* C4: at every point of a generation, and so in the returned set, the wall set of
\* either generator holds neither the start nor the finish coordinate.
C4_EndpointsNeverWalls ==
    gen \in {"division", "backtracker"}
        => (keyOf(start) \notin walls /\ keyOf(finish) \notin walls)

\* C4 witness: recursive division with a border has returned, start lies on the top
\* border between two border walls and is not in the set.
C4_Witness ==
    /\ gen = "division" /\ mpc = "returned" /\ addBorder
    /\ start[1] = 0
    /\ key(0, start[2] - 1) \in walls
    /\ key(0, start[2] + 1) \in walls
    /\ keyOf(start) \notin walls

\* C5: in the maze returned by recursive division with a border on a grid of at least
\* 5 x 5 cells, finish is reachable from start through non-wall cells.
C5_DivisionConnects ==
    (gen = "division" /\ mpc = "returned" /\ addBorder /\ rows >= 5 /\ cols >= 5)
        => Connected(walls, rows, cols, start, finish)

\* C6: in the maze returned by the recursive backtracker with a border on a grid of at
\* least 5 x 5 cells, finish is reachable from start through non-wall cells.
C6_BacktrackerConnects ==
    (gen = "backtracker" /\ mpc = "returned" /\ addBorder /\ rows >= 5 /\ cols >= 5)
        => Connected(walls, rows, cols, start, finish)

\* C7: when no route joins start and finish, the search returns a non-empty visited
\* list without finish, finish.previousNode is still null, the reconstruction is
\* exactly [finish], and computeRun reports no path.
C7_NoRoute ==
    (Returned /\ ~Routed) =>
        /\ visitedNodesInOrder # <<>>
        /\ ~ReachedFinish
        /\ grid[finish].previousNode = Null
        /\ PathNow = <<finish>>
        /\ PathNow[1] # start
        /\ (pc = "reported" => ~hasPath /\ nodesInShortestPathOrder = <<>>)

\* C7 witness: dijkstra has returned and reported on a grid whose walls separate start
\* from finish, after visiting at least two cells.
C7_Witness ==
    /\ pc = "reported" /\ alg = "dijkstra" /\ ~Routed
    /\ Len(visitedNodesInOrder) >= 2
    /\ ~hasPath

\* C8: at every step of a run and at its end, no wall cell is marked visited and no
\* wall cell is in the visited list.
C8_WallsNeverVisited ==
    \A c \in DOMAIN grid :
        grid[c].isWall => (~grid[c].isVisited /\ ~Contains(visitedNodesInOrder, c))

\* C8 witness: bfs has expanded a cell that has a wall neighbour.
C8_Witness ==
    /\ alg = "bfs" /\ Returned
    /\ \E i \in 1 .. Len(visitedNodesInOrder) : \E w \in WallsOf(grid) :
          /\ visitedNodesInOrder[i] # finish
          /\ Adjacent(visitedNodesInOrder[i], w)
          /\ ~grid[w].isVisited

\* The path bfs leaves on an independent clone of the grid of this run.
BfsPathOnClone ==
    LET clone == cloneGridForAlgorithm(rows, cols, WallsOf(grid))
        S == runSearch("bfs", clone, start, finish, rows, cols)
    IN  getNodesInShortestPathOrder(S.grid, finish)

\* C9: whenever dfs or greedyBestFirst reaches finish, its reconstructed path has at
\* least as many cells as the path bfs reconstructs on an independent clone.
C9_NotShorterThanBfs ==
    (Returned /\ alg \in {"dfs", "greedy"} /\ ReachedFinish)
        => Len(PathNow) >= Len(BfsPathOnClone)

\* C9 witness: dfs reached finish by a path strictly longer than that of bfs.
C9_Witness ==
    /\ pc = "done" /\ alg = "dfs" /\ ReachedFinish
    /\ Len(PathNow) > Len(BfsPathOnClone)
    /\ Len(BfsPathOnClone) >= 2

\* C10: during and after a run, start.previousNode is null and the previousNode links
\* hold no cycle: from every cell that has a predecessor the chain ends at start, and
\* when finish was reached the reconstruction begins with start.
C10_ChainsEndAtStart ==
    /\ grid[start].previousNode = Null
    /\ \A c \in DOMAIN grid :
          grid[c].previousNode # Null =>
              /\ ChainEnds(grid, c, Cardinality(DOMAIN grid))
              /\ getNodesInShortestPathOrder(grid, c)[1] = start
    /\ ReachedFinish => PathNow[1] = start

\* C10 witness: a run in progress in which some cell is three links away from start.
C10_Witness ==
    /\ pc = "loop"
    /\ \E c \in DOMAIN grid :
          /\ grid[c].previousNode # Null
          /\ Len(getNodesInShortestPathOrder(grid, c)) >= 4
          /\ getNodesInShortestPathOrder(grid, c)[1] = start

\* The steps a search still has before it: five for every cell not yet marked visited
\* (an iteration marks one cell and adds at most four to the frontier, or marks each
\* cell it adds) and one for every cell of the frontier.
SearchSteps ==
    5 * Cardinality({c \in DOMAIN grid : ~grid[c].isVisited}) + Len(frontier)

SearchPhase == CASE pc = "start" -> 3 [] pc = "loop" -> 2 [] pc = "done" -> 1 [] OTHER -> 0

\* The weight of a divide call: a call that divides weighs more than its two calls.
CallWeight(call) ==
    LET width == call.maxCol - call.minCol + 1
        height == call.maxRow - call.minRow + 1
    IN  2 * (IF width > 0 /\ height > 0 THEN width * height ELSE 0) + 1

RECURSIVE SumWeights(_)
SumWeights(cs) == IF cs = <<>> THEN 0 ELSE CallWeight(Head(cs)) + SumWeights(Tail(cs))

\* The steps a generation still has before it: the weights of the divide calls to
\* run; two for every cell the backtracker can still visit and one for every cell of
\* its stack.
MazeSteps ==
    SumWeights(calls) + 2 * (rows * cols + 1 - Cardinality(visitedCells)) + Len(stack)

MazePhase == CASE mpc = "start" -> 2 [] mpc \in {"divide", "carve"} -> 1 [] OTHER -> 0

\* A variant: a natural number that every step of a search or a generation lowers.
Variant ==
    IF gen = "none"
    THEN SearchPhase * (6 * rows * cols + 1) + SearchSteps
    ELSE MazePhase * (5 * rows * cols + 4) + MazeSteps

\* The run has a step to take: the loop test passed with a frontier to take a cell
\* from, the loop over previousNode ends, the generator has a call or a cell to go on.
CanStep ==
    \/ pc = "start"
    \/ pc = "loop" /\ frontier # <<>>
    \/ pc = "done" /\ ChainEnds(grid, finish, Cardinality(DOMAIN grid))
    \/ mpc \in {"start", "divide", "carve"}

\* C11: every search and every generation runs to completion, whatever the grid and
\* the random choices: each step lowers a natural number, and as long as computeRun
\* has not got its path, or the generator has not returned, a step can be taken.
C11_RunsToCompletion ==
    /\ [](Variant >= 0 /\ (pc = "reported" \/ mpc = "returned" \/ CanStep))
    /\ [][Variant' < Variant]_vars

\* C11 witness: astar has returned after at least four iterations and the path is
\* reconstructed; or the backtracker has returned after carving at least four cells.
C11_Witness ==
    \/ pc = "reported" /\ alg = "astar" /\ Len(visitedNodesInOrder) >= 4 /\ hasPath
    \/ mpc = "returned" /\ gen = "backtracker" /\ Cardinality(visitedCells) >= 4

\* The input the specification calls invalid: start equal to finish, or a coordinate
\* of start or finish outside the grid.
InvalidInput ==
    \/ start = finish
    \/ start \notin Cells(rows, cols)
    \/ finish \notin Cells(rows, cols)

\* C12: on an invalid input nothing runs: no cell enters a visited list, no key enters
\* a wall set, and every cell keeps the working fields the clone gave it.
C12_InvalidInputRejected ==
    InvalidInput =>
        /\ visitedNodesInOrder = <<>>
        /\ walls = {}
        /\ \A c \in DOMAIN grid : grid[c] = CloneNode(grid[c].isWall)

\* The cells of the board flagged isStart, and those flagged isFinish.
StartCells == {c \in DOMAIN uiGrid : uiGrid[c].isStart}

FinishCells == {c \in DOMAIN uiGrid : uiGrid[c].isFinish}

\* C13: after any sequence of operations on the board, exactly one cell is flagged
\* isStart, exactly one is flagged isFinish, and the two are different cells.
C13_OneStartOneFinish ==
    (uiGrid # <<>> /\ handler = "none") =>
        /\ Cardinality(StartCells) = 1
        /\ Cardinality(FinishCells) = 1
        /\ StartCells \cap FinishCells = {}

\* C14: whenever computeRun can hand the board to a search, the nodes at startPos and
\* finishPos are two different cells that are not walls, and they are the cells flagged
\* isStart and isFinish.
C14_HandedEndpoints ==
    (uiGrid # <<>> /\ handler = "none") =>
        /\ start # finish
        /\ ~uiGrid[start].isWall
        /\ ~uiGrid[finish].isWall
        /\ uiGrid[start].isStart
        /\ uiGrid[finish].isFinish

\* The working fields a cell of a fresh clone, or of the board, has.
Fresh(node) ==
    node.distance = Infinity /\ ~node.isVisited /\ node.previousNode = Null

\* C15: every search visualize or benchmarkAll starts gets a clone of the board whose
\* cells all have distance Infinity, isVisited false, previousNode null (and fScore
\* Infinity), with the walls of the board; no cell of the board ever takes a working
\* value, and the board does not change while the handler runs its searches.
C15_RunsOnFreshClone ==
    /\ []((handler \in {"visualize", "benchmarkAll"} /\ pc = "start") =>
             \A c \in DOMAIN uiGrid :
                 /\ Fresh(grid[c])
                 /\ grid[c].fScore = Infinity
                 /\ grid[c].isWall = uiGrid[c].isWall)
    /\ [](\A c \in DOMAIN uiGrid : Fresh(uiGrid[c]))
    /\ [][(handler \in {"visualize", "benchmarkAll"}) => (uiGrid' = uiGrid)]_vars

\* C15 witness: the fifth run of benchmarkAll (dfs) is about to start on a fresh clone
\* of a board with a wall, the four runs before it done.
C15_Witness ==
    /\ handler = "benchmarkAll" /\ pc = "start" /\ alg = "dfs"
    /\ WallsOf(uiGrid) # {}
    /\ \A c \in DOMAIN grid : Fresh(grid[c])

\* C16: on a grid without walls, for every two different cells, the paths of bfs, of
\* dijkstra and of astar have as many moves as the Manhattan distance of the two cells.
C16_ManhattanOnOpenGrid ==
    (Returned /\ alg \in {"bfs", "dijkstra", "astar"} /\ WallsOf(grid) = {})
        => Len(PathNow) - 1 = Abs(start[1] - finish[1]) + Abs(start[2] - finish[2])

\* C16 witness: dijkstra has returned on a grid without walls whose start and finish
\* differ in row and in column and are at least three moves apart.
C16_Witness ==
    /\ pc = "done" /\ alg = "dijkstra" /\ WallsOf(grid) = {}
    /\ start[1] # finish[1] /\ start[2] # finish[2]
    /\ Len(PathNow) - 1 = manhattan(start, finish)
    /\ manhattan(start, finish) >= 3

\* C17: when start and finish are orthogonal neighbours, each of the five searches
\* returns with finish.previousNode = start, and the path is [start, finish].
C17_AdjacentEndpoints ==
    (Returned /\ Adjacent(start, finish)) =>
        /\ grid[finish].previousNode = start
        /\ PathNow = <<start, finish>>

\* C17 witness: dfs returned for neighbouring endpoints after expanding start only,
\* with other cells still on its stack and a wall on the grid.
C17_Witness ==
    /\ pc = "done" /\ alg = "dfs" /\ Adjacent(start, finish)
    /\ frontier # <<>>
    /\ WallsOf(grid) # {}
    /\ PathNow = <<start, finish>>

\* The visited list goes layer by layer: Manhattan distance from start never drops.
LayerByLayer ==
    \A i, j \in 1 .. Len(visitedNodesInOrder) :
        i < j => manhattan(start, visitedNodesInOrder[i]) <= manhattan(start, visitedNodesInOrder[j])

\* C18: on the square scenario grid (5 x 5: path of 9 cells), bfs, dijkstra and astar
\* reconstruct a path of 2 * size - 1 cells; at every step their visited list is in the
\* order of the Manhattan distance from start, and at the return it holds every cell
\* once, each layer whole before the next, with finish last.
C18_Scenario ==
    alg \in {"bfs", "dijkstra", "astar"} =>
        /\ LayerByLayer
        /\ Returned =>
              /\ Len(PathNow) = 2 * ScenarioSize - 1
              /\ (ScenarioSize = 5 => Len(PathNow) = 9)
              /\ {visitedNodesInOrder[i] : i \in 1 .. Len(visitedNodesInOrder)} = DOMAIN grid
              /\ Len(visitedNodesInOrder) = Cardinality(DOMAIN grid)
              /\ visitedNodesInOrder[Len(visitedNodesInOrder)] = finish

\* C18 witness: astar has returned on the scenario grid with every cell visited.
C18_Witness ==
    /\ pc = "done" /\ alg = "astar"
    /\ rows = ScenarioSize /\ cols = ScenarioSize /\ WallsOf(grid) = {}
    /\ Len(visitedNodesInOrder) = ScenarioSize * ScenarioSize
    /\ Len(PathNow) = 2 * ScenarioSize - 1

\* C19: for a grid with fewer than three rows or fewer than three columns, the wall set
\* a generator returns is empty, with and without addBorder.
C19_DegenerateGridEmpty ==
    (mpc = "returned" /\ (rows < 3 \/ cols < 3)) => walls = {}

\* The run of the same search on a second, independent clone of the same grid.
SecondRun ==
    runSearch(alg, cloneGridForAlgorithm(rows, cols, WallsOf(grid)), start, finish, rows, cols)

CostBased == alg \in {"bfs", "dijkstra", "astar"}

VisitedSet == {visitedNodesInOrder[i] : i \in 1 .. Len(visitedNodesInOrder)}

\* A step leaves the distance and the previousNode of every visited cell alone.
VisitedKept ==
    \A c \in VisitedSet :
        /\ grid'[c].distance = grid[c].distance
        /\ grid'[c].previousNode = grid[c].previousNode

\* C21: in bfs, dijkstra and astar every cell of the visited list has, from the moment
\* it is appended, the length of a shortest wall-free route from start as its distance,
\* and no later step changes the distance or the previousNode of a cell of the list.
C21_DistanceFinalWhenVisited ==
    /\ [](CostBased => \A c \in VisitedSet : grid[c].distance = ShortestDist(grid, start, c))
    /\ [][CostBased => VisitedKept]_vars

\* C21 witness: astar has returned after a detour round walls, with a visited cell
\* that lies farther from start than the Manhattan distance.
C21_Witness ==
    /\ pc = "done" /\ alg = "astar"
    /\ Len(visitedNodesInOrder) >= 4
    /\ \E i \in 1 .. Len(visitedNodesInOrder) :
          /\ grid[visitedNodesInOrder[i]].distance > manhattan(start, visitedNodesInOrder[i])
          /\ grid[visitedNodesInOrder[i]].distance
                = ShortestDist(grid, start, visitedNodesInOrder[i])

NoDuplicates(s) == \A i, j \in 1 .. Len(s) : i # j => s[i] # s[j]

FrontierSet == {frontier[i] : i \in 1 .. Len(frontier)}

\* The cells a step pushes: those the frontier holds more often after it than before.
PushedOnlyUnmarked ==
    \A c \in DOMAIN grid :
        /\ grid[c].isVisited => grid'[c].isVisited
        /\ Occurrences(frontier', c) > Occurrences(frontier, c) =>
              /\ ~grid[c].isVisited
              /\ grid'[c].isVisited
              /\ Occurrences(frontier', c) = 1

\* The searches that mark a cell visited when they push it.
MarksAtPush == alg \in {"bfs", "dfs"}

\* C22: no search appends a cell to the visited list twice; bfs and dfs push a cell
\* only while it is unmarked and mark it with the push, and no mark is ever taken back,
\* so no cell is pushed twice; the open set of astar and of greedy never holds a cell
\* twice and never holds a cell marked visited.
C22_NoRevisits ==
    /\ [](NoDuplicates(visitedNodesInOrder))
    /\ [](MarksAtPush => NoDuplicates(frontier))
    /\ [][MarksAtPush => PushedOnlyUnmarked]_vars
    /\ [](alg \in {"astar", "greedy"} =>
            /\ NoDuplicates(frontier)
            /\ \A c \in FrontierSet : ~grid[c].isVisited)

\* C22 witness: greedy is running with two cells in the open set, one of them a
\* neighbour of two cells already visited (so it was met twice and added once).
C22_Witness ==
    /\ pc = "loop" /\ alg = "greedy"
    /\ Len(frontier) >= 2
    /\ \E c \in FrontierSet :
          Cardinality({v \in VisitedSet : Adjacent(v, c)}) >= 2

\* The place of a cell in the visited list; past its end for a cell not in it.
VisitedAt(c) ==
    IF c \in VisitedSet
    THEN CHOOSE i \in 1 .. Len(visitedNodesInOrder) : visitedNodesInOrder[i] = c
    ELSE Len(visitedNodesInOrder) + 1

\* A step leaves every predecessor that is already set as it is.
PredecessorsKept ==
    \A c \in DOMAIN grid :
        grid[c].previousNode # Null => grid'[c].previousNode = grid[c].previousNode

FirstDiscoveryOnly == alg \in {"bfs", "dfs", "greedy"}

\* C23: within a run of bfs, dfs or greedy, once a cell has a previousNode no later
\* step of the run replaces it.
C23_PreviousNodeAssignedOnce == [][FirstDiscoveryOnly => PredecessorsKept]_vars

\* C23 witness: greedy has returned, and some cell was met from a second expanded
\* neighbour, later than from its previousNode and before it was itself expanded.
C23_Witness ==
    /\ pc = "done" /\ alg = "greedy"
    /\ \E c \in DOMAIN grid : \E v \in VisitedSet :
          /\ grid[c].previousNode # Null
          /\ v # grid[c].previousNode
          /\ Adjacent(v, c)
          /\ VisitedAt(grid[c].previousNode) < VisitedAt(v)
          /\ VisitedAt(v) < VisitedAt(c)
          /\ v # finish

\* The cells a run has discovered: start, and every cell that was given a predecessor.
Discovered == {c \in DOMAIN grid : c = start \/ grid[c].previousNode # Null}

\* C24: after each of the five searches start has distance 0, every other cell of the
\* visited list has a finite distance, one more than the distance of its previousNode,
\* and every non-wall cell that was never discovered still has distance Infinity.
C24_DistanceIsCostFromStart ==
    Returned =>
        /\ grid[start].distance = 0
        /\ \A c \in VisitedSet \ {start} :
              /\ grid[c].distance < Infinity
              /\ grid[c].previousNode # Null
              /\ grid[c].distance = grid[grid[c].previousNode].distance + 1
        /\ \A c \in DOMAIN grid \ Discovered :
              ~grid[c].isWall => grid[c].distance = Infinity

\* The interior cells with odd row and odd column: the cells of the carved lattice.
OddInterior ==
    {c \in Cells(rows, cols) : isInterior(c[1], c[2], rows, cols) /\ c[1] % 2 = 1 /\ c[2] % 2 = 1}

\* The cell between two lattice cells that lie two steps apart.
Midpoint(a, b) == <<(a[1] + b[1]) \div 2, (a[2] + b[2]) \div 2>>

\* The pairs of lattice cells whose midpoint is not a wall.
OpenEdges ==
    {e \in SUBSET OddInterior :
        \E a, b \in e : /\ e = {a, b} /\ manhattan(a, b) = 2
                         /\ (a[1] = b[1] \/ a[2] = b[2])
                         /\ keyOf(Midpoint(a, b)) \notin walls}

\* Those of them whose midpoint can only be open because the carving cleared it.
ClearedEdges ==
    {e \in OpenEdges :
        \A a, b \in e : a # b => keyOf(Midpoint(a, b)) \notin protectedNodes(start, finish)}

\* The lattice cells joined to those of `seen` by the edges of E.
RECURSIVE JoinedBy(_, _)
JoinedBy(seen, E) ==
    LET more == {c \in OddInterior \ seen : \E a \in seen : {a, c} \in E}
    IN  IF more = {} THEN seen ELSE JoinedBy(seen \cup more, E)

\* E is a spanning tree of the lattice: it joins all its cells with one edge less than
\* there are cells.
SpanningTree(E) ==
    /\ Cardinality(E) = Cardinality(OddInterior) - 1
    /\ \A c \in OddInterior : JoinedBy({c}, E) = OddInterior

CarvingEnded == gen = "backtracker" /\ mpc = "carve" /\ stack = <<>> /\ rows >= 3 /\ cols >= 3

\* A carving step that visits a cell: the cell is a lattice cell not visited before, two
\* steps from the cell on top of the stack, and the step clears the cell and the
\* midpoint between the two, nothing else.
CarveJoins ==
    (gen = "backtracker" /\ mpc = "carve" /\ visitedCells' # visitedCells) =>
        \E next \in OddInterior :
            LET current == stack[Len(stack)]
            IN  /\ keyOf(next) \notin visitedCells
                /\ keyOf(current) \in visitedCells
                /\ visitedCells' = visitedCells \cup {keyOf(next)}
                /\ manhattan(current, next) = 2
                /\ walls' = walls \ {keyOf(Midpoint(current, next)), keyOf(next)}

\* C25: when the carving loop of the recursive backtracker ends (rows, cols >= 3),
\* every interior cell with odd row and odd column is visited and not a wall, every
\* carving step has joined one new lattice cell to a visited one by clearing their
\* midpoint, and the cleared midpoints form a spanning tree of the lattice: they join
\* all its cells and are one fewer than the cells (a midpoint that holds start or
\* finish is never a wall, so it counts only if the tree needs it).
C25_BacktrackerSpanningTree ==
    /\ [](CarvingEnded =>
            /\ visitedCells = {keyOf(c) : c \in OddInterior}
            /\ \A c \in OddInterior : keyOf(c) \notin walls
            /\ \E X \in SUBSET (OpenEdges \ ClearedEdges) : SpanningTree(ClearedEdges \cup X))
    /\ [][CarveJoins]_vars

\* C25 witness: the carving loop has ended on a grid whose lattice has four cells,
\* where a loop would have been possible.
C25_Witness ==
    /\ CarvingEnded
    /\ Cardinality(OddInterior) = 4
    /\ Cardinality(ClearedEdges) = 3

\* The call of divide that runs next goes on to draw a line.
DrawsLine ==
    /\ gen = "division" /\ mpc = "divide" /\ calls # <<>>
    /\ Head(calls).maxCol - Head(calls).minCol + 1 >= 3
    /\ Head(calls).maxRow - Head(calls).minRow + 1 >= 3

AllEven(S) == \A x \in S : x % 2 = 0

AllOdd(S) == \A x \in S : x % 2 = 1

\* The choices of randomEven and randomOdd for the line and the passage of the next
\* call: neither is null, so `??` never falls back to the midpoint.
NoFallback ==
    LET call == Head(calls)
        line == IF call.orientation = "horizontal"
                THEN randomEven(call.minRow + 1, call.maxRow - 1)
                ELSE randomEven(call.minCol + 1, call.maxCol - 1)
        passage == IF call.orientation = "horizontal"
                   THEN randomOdd(call.minCol, call.maxCol)
                   ELSE randomOdd(call.minRow, call.maxRow)
    IN  /\ line # {} /\ AllEven(line)
        /\ passage # {} /\ AllOdd(passage)

\* The line a step of divide has drawn, read off the two calls it has queued: it lies
\* on an even row (column), every wall the step adds is on it, and the region's cells
\* of the line that stay open without being protected are one, on an odd column (row).
LineOnLattice ==
    DrawsLine =>
        LET call == Head(calls)
            horizontal == call.orientation = "horizontal"
            at == IF horizontal THEN calls'[1].maxRow + 1 ELSE calls'[1].maxCol + 1
            lineCells == IF horizontal
                         THEN {<<at, c>> : c \in call.minCol .. call.maxCol}
                         ELSE {<<r, at>> : r \in call.minRow .. call.maxRow}
            open == {c \in lineCells : keyOf(c) \notin walls'}
        IN  /\ at % 2 = 0
            /\ walls' \ walls \subseteq {keyOf(c) : c \in lineCells}
            /\ \E p \in open :
                  /\ (IF horizontal THEN p[2] ELSE p[1]) % 2 = 1
                  /\ \A c \in open \ {p} : keyOf(c) \in protectedNodes(start, finish)

\* C26: in recursive division every line divide draws lies on an even row or column
\* with its passage on an odd column or row, randomEven and randomOdd never return
\* null there, and no cell strictly inside the outer ring with odd row and odd column
\* is ever in the wall set.
C26_DivisionParity ==
    /\ [](DrawsLine => NoFallback)
    /\ [][LineOnLattice]_vars
    /\ [](gen = "division" => \A c \in OddInterior : keyOf(c) \notin walls)

\* C26 witness: on a grid with an even number of rows and of columns, divide has
\* drawn a line in a region that a first line had cut off.
C26_Witness ==
    /\ gen = "division" /\ mpc = "divide"
    /\ rows % 2 = 0 /\ cols % 2 = 0 /\ rows >= 6 /\ cols >= 6
    /\ \E r \in 2 .. rows - 3 : \E c \in 2 .. cols - 3 :
          /\ r % 2 = 0 /\ c % 2 = 0
          /\ \E c1 \in 1 .. cols - 2 : key(r, c1) \in walls
          /\ \E r1 \in 1 .. rows - 2 : r1 # r /\ key(r1, c) \in walls

\* The outer ring: row 0, row rows - 1, column 0 and column cols - 1.
OuterRing == {c \in Cells(rows, cols) : ~isInterior(c[1], c[2], rows, cols)}

\* C27: a wall set returned by a generator called with addBorder = false holds no
\* cell of the outer ring, for recursive division and the recursive backtracker alike.
C27_NoBorderWithoutAddBorder ==
    (mpc = "returned" /\ ~addBorder) => \A c \in OuterRing : keyOf(c) \notin walls

\* The neighbours of a cell that dfs may still discover, in the order Up, Right, Down,
\* Left: inside the grid, not walls, not marked visited.
Discoverable(c) ==
    LET Can(n) == n \in DOMAIN grid /\ ~grid[n].isWall /\ ~grid[n].isVisited
    IN  SelectSeq(<<Up(c), Right(c), Down(c), Left(c)>>, Can)

\* A step of dfs's loop: the cell on top of the stack is the one appended to the
\* visited list; if it is not finish it is expanded, and then the top of the stack is
\* its first discoverable neighbour if it has one; if it has none, the stack is what
\* was below it, whose top is the most recently pushed cell left.
DfsOrder ==
    (alg = "dfs" /\ pc = "loop") =>
        LET node == frontier[Len(frontier)]
            below == SubSeq(frontier, 1, Len(frontier) - 1)
        IN  /\ visitedNodesInOrder' = Append(visitedNodesInOrder, node)
            /\ node # finish =>
                  /\ SubSeq(frontier', 1, Len(below)) = below
                  /\ IF Discoverable(node) # <<>>
                     THEN frontier'[Len(frontier')] = Discoverable(node)[1]
                     ELSE frontier' = below

\* C28: in dfs, after a cell is expanded that has an unvisited non-wall neighbour, the
\* next cell appended to the visited list is the first such neighbour in the order Up,
\* Right, Down, Left; when it has none, the next cell is the most recently pushed cell
\* still on the stack.
C28_DfsOrder == [][DfsOrder]_vars

\* C28 witness: dfs went back to an older cell of the stack (two consecutive cells of
\* the visited list are not neighbours) after it had gone from a cell to a neighbour.
C28_Witness ==
    /\ alg = "dfs" /\ Returned
    /\ \E i \in 1 .. Len(visitedNodesInOrder) - 1 :
          ~Adjacent(visitedNodesInOrder[i], visitedNodesInOrder[i + 1])
    /\ \E i \in 1 .. Len(visitedNodesInOrder) - 1 :
          Adjacent(visitedNodesInOrder[i], visitedNodesInOrder[i + 1])

\* A step leaves the layout alone: the cells, which of them are walls, and which two
\* are start and finish.
LayoutKept ==
    /\ DOMAIN grid' = DOMAIN grid
    /\ WallsOf(grid') = WallsOf(grid)
    /\ start' = start /\ finish' = finish

\* C29: during each of the five searches the layout stays as it is and every wall
\* cell keeps its reset working values: distance Infinity, previousNode null,
\* isVisited false.
C29_WallsAndLayoutUntouched ==
    /\ [][LayoutKept]_vars
    /\ [](\A c \in WallsOf(grid) :
            /\ grid[c].distance = Infinity
            /\ grid[c].previousNode = Null
            /\ ~grid[c].isVisited)

\* The timers pending are those of a visualize run in which no path was found.
BlockedRun == \E i \in 1 .. Len(timeouts) : timeouts[i].does = "blocked"

\* A step taken while such timers are pending does not write the status 'Done', and if
\* it ends the animation it writes the blocked status, unless it is the user stopping
\* ('Stopped') or clearing ('Ready') the run.
BlockedRunEndsBlocked ==
    BlockedRun =>
        /\ status' # "Done"
        /\ (isAnimating /\ ~isAnimating') =>
              status' \in {"No path found (blocked)", "Stopped", "Ready"}

\* C30: for a visualize run in which no path was found, no timer of the run sets the
\* status to 'Done', and isAnimating becomes false only together with the status 'No
\* path found (blocked)', unless the user stops or clears the run first.
C30_BlockedRunNeverDone == [][BlockedRunEndsBlocked]_vars

====
